---- MODULE Spec2Model ----
(***************************************************************************)
(* Filter-to-SQL compiler of api/src/database/run-ast/lib/apply-query/     *)
(* filter: applyFilter (index.ts) with the JSON helpers of json-query.ts,  *)
(* followed by the rendering of the query (toSQL), which is when the       *)
(* deferred where-callbacks run.                                           *)
(*                                                                         *)
(* JavaScript strings are sequences of one-character strings, so that      *)
(* join, split, startsWith and the regular expressions are computed.       *)
(* JavaScript values are tagged records:                                   *)
(*   [t |-> "str", s |-> chars]   [t |-> "num", n |-> Int]                 *)
(*   [t |-> "undef"]              [t |-> "arr", a |-> <<values>>]          *)
(*   [t |-> "obj", e |-> <<[k |-> chars, v |-> value]>>]  (ordered keys)   *)
(* SQL text is a sequence of tokens; "?" is the placeholder token.         *)
(***************************************************************************)
EXTENDS Integers, Sequences, FiniteSets

(* pc          where the run is: "start", "built" (applyFilter returned),
               "done" (toSQL returned), "failed" (applyFilter threw),
               "renderFailed" (toSQL threw); "call"/"returned" in the
               specifications of the pure functions
   rootFilter  the filter given to applyFilter
   rootQuery   the where-statements of the query builder given to applyFilter
   ctx         the context of the applyFilter call
   compiled    [sql, bindings] of rootQuery.toSQL()
   arg, ret    the argument and the result of a pure function               *)
VARIABLES pc, rootFilter, rootQuery, ctx, compiled, arg, ret

vars == <<pc, rootFilter, rootQuery, ctx, compiled, arg, ret>>

\* ------------------------------------------------------------------ bounds

\* longest _and/_or list of the generated filters
MaxList == 2

\* longest field path given to buildJsonPath
MaxSegs == 3

\* longest operand list of _in/_nin and of _between
MaxOperands == 2

\* ----------------------------------------------------------- JS values

Str(s) == [t |-> "str", s |-> s]
Num(n) == [t |-> "num", n |-> n]
Undef == [t |-> "undef"]
Arr(a) == [t |-> "arr", a |-> a]
Obj(e) == [t |-> "obj", e |-> e]
KV(k, v) == [k |-> k, v |-> v]

DigitChars == <<"0", "1", "2", "3", "4", "5", "6", "7", "8", "9">>
Digits == {DigitChars[i] : i \in 1..10}
Letters == {"a", "b", "c", "d", "e", "f", "g", "h", "i", "j", "k", "l", "m",
            "n", "o", "p", "q", "r", "s", "t", "u", "v", "w", "x", "y", "z"}

DigitValue(c) == CHOOSE i \in 0..9 : DigitChars[i + 1] = c

RECURSIVE Join(_, _)
Join(parts, sep) ==
  IF Len(parts) = 0 THEN <<>>
  ELSE IF Len(parts) = 1 THEN parts[1]
  ELSE parts[1] \o sep \o Join(Tail(parts), sep)

RECURSIVE Concat(_)
Concat(parts) == IF Len(parts) = 0 THEN <<>> ELSE parts[1] \o Concat(Tail(parts))

\* String.prototype.split(sep) for a one-character separator
RECURSIVE SplitFrom(_, _, _)
SplitFrom(s, sep, cur) ==
  IF Len(s) = 0 THEN <<cur>>
  ELSE IF s[1] = sep THEN <<cur>> \o SplitFrom(Tail(s), sep, <<>>)
  ELSE SplitFrom(Tail(s), sep, Append(cur, s[1]))

Split(s, sep) == SplitFrom(s, sep, <<>>)

StartsWithUnderscore(s) == Len(s) > 0 /\ s[1] = "_"

RECURSIVE NumToStr(_)
NumToStr(n) ==
  IF n < 10 THEN <<DigitChars[n + 1]>>
  ELSE NumToStr(n \div 10) \o <<DigitChars[(n % 10) + 1]>>

\* String(value), as a template literal or Array.prototype.join computes it
RECURSIVE JsString(_)
JsString(v) ==
  CASE v.t = "str" -> v.s
    [] v.t = "num" -> NumToStr(v.n)
    [] v.t = "arr" ->
         Join([i \in 1..Len(v.a) |->
                 IF v.a[i].t = "undef" THEN <<>> ELSE JsString(v.a[i])], <<",">>)
    [] v.t = "undef" -> <<"u", "n", "d", "e", "f", "i", "n", "e", "d">>
    [] OTHER -> <<"[", "o", "b", "j", "e", "c", "t", "]">>

\* the leading run of decimal digits of a string
RECURSIVE DigitPrefix(_)
DigitPrefix(s) ==
  IF Len(s) > 0 /\ s[1] \in Digits THEN <<s[1]>> \o DigitPrefix(Tail(s)) ELSE <<>>

RECURSIVE DigitsToNum(_, _)
DigitsToNum(s, acc) ==
  IF Len(s) = 0 THEN acc ELSE DigitsToNum(Tail(s), 10 * acc + DigitValue(s[1]))

\* parseFloat(value): [fin |-> is the result a finite number, n |-> the number]
parseFloat(v) ==
  IF v.t = "num" THEN [fin |-> TRUE, n |-> v.n]
  ELSE LET p == DigitPrefix(JsString(v))
       IN IF Len(p) = 0 THEN [fin |-> FALSE, n |-> 0]
          ELSE [fin |-> TRUE, n |-> DigitsToNum(p, 0)]

Count(x, s) == Cardinality({i \in 1..Len(s) : s[i] = x})

\* ------------------------------------------- getJsonOperatorAndValues

\* operator names
OpEq == <<"_", "e", "q">>
OpNeq == <<"_", "n", "e", "q">>
OpContains == <<"_", "c", "o", "n", "t", "a", "i", "n", "s">>
OpNContains == <<"_", "n", "c", "o", "n", "t", "a", "i", "n", "s">>
OpIContains == <<"_", "i", "c", "o", "n", "t", "a", "i", "n", "s">>
OpNIContains == <<"_", "n", "i", "c", "o", "n", "t", "a", "i", "n", "s">>
OpStartsWith == <<"_", "s", "t", "a", "r", "t", "s", "_", "w", "i", "t", "h">>
OpEndsWith == <<"_", "e", "n", "d", "s", "_", "w", "i", "t", "h">>
OpGt == <<"_", "g", "t">>
OpGte == <<"_", "g", "t", "e">>
OpLt == <<"_", "l", "t">>
OpLte == <<"_", "l", "t", "e">>
OpIn == <<"_", "i", "n">>
OpNin == <<"_", "n", "i", "n">>
OpBetween == <<"_", "b", "e", "t", "w", "e", "e", "n">>
OpNBetween == <<"_", "n", "b", "e", "t", "w", "e", "e", "n">>
OpEmpty == <<"_", "e", "m", "p", "t", "y">>
OpNEmpty == <<"_", "n", "e", "m", "p", "t", "y">>
\* a name outside the operator table
OpUnknown == <<"_", "r", "e", "g", "e", "x">>

IsNullish(v) == v.t = "undef"

\* filterValue[i] of an array operand (undefined beyond its length)
Index(v, i) == IF v.t = "arr" /\ i < Len(v.a) THEN v.a[i + 1] ELSE Undef

\* the left operand of `filterValue[0] ??= 0`
BetweenLower(v) == IF IsNullish(Index(v, 0)) THEN Num(0) ELSE Index(v, 0)

\* a faulty variant of BetweenUpper: filterValue[0] is read as it was given
BetweenUpperAsGiven(v) == IF IsNullish(Index(v, 1)) THEN Index(v, 0) ELSE Index(v, 1)

\* `filterValue[1] ?? filterValue[0]`, evaluated after the assignment to [0]
BetweenUpper(v) == IF IsNullish(Index(v, 1)) THEN BetweenLower(v) ELSE Index(v, 1)

\* the switch of lines 11-43: the bound values
JsonValues(filterOperator, filterValue) ==
  CASE filterOperator \in {OpContains, OpNContains, OpIContains, OpNIContains} ->
         <<Str(<<"%">> \o JsString(filterValue) \o <<"%">>)>>
    [] filterOperator = OpStartsWith -> <<Str(JsString(filterValue) \o <<"%">>)>>
    [] filterOperator = OpEndsWith -> <<Str(<<"%">> \o JsString(filterValue))>>
    [] filterOperator \in {OpIn, OpNin} ->
         IF filterValue.t = "arr" THEN filterValue.a
         ELSE LET parts == Split(filterValue.s, ",")
              IN [i \in 1..Len(parts) |-> Str(parts[i])]
    [] filterOperator \in {OpGt, OpGte, OpLt, OpLte} ->
         IF parseFloat(filterValue).fin THEN <<Num(parseFloat(filterValue).n)>>
         ELSE <<filterValue>>
    [] filterOperator \in {OpBetween, OpNBetween} ->
         <<BetweenLower(filterValue), BetweenUpper(filterValue)>>
    [] filterOperator \in {OpEmpty, OpNEmpty} -> <<>>
    [] OTHER -> <<filterValue>>

\* a faulty variant of Placeholders: one placeholder whatever the list
PlaceholdersOnce(values) == <<"?">>

\* values.map(() => `?`).join(', ')
Placeholders(values) == Join([i \in 1..Len(values) |-> <<"?">>], <<",">>)

\* a faulty variant of FallbackOperator: a name outside the table compares nothing
FallbackOperatorNone == <<"IS NULL">>

\* `?? '= ?'` (line 64)
FallbackOperator == <<"=", "?">>

\* the table of lines 45-64: the template, as SQL tokens
JsonOperator(filterOperator, values) ==
  CASE filterOperator = OpEq -> <<"=", "?">>
    [] filterOperator = OpNeq -> <<"!=", "?">>
    [] filterOperator \in {OpContains, OpIContains, OpStartsWith, OpEndsWith} ->
         <<"LIKE", "?">>
    [] filterOperator \in {OpNContains, OpNIContains} -> <<"NOT LIKE", "?">>
    [] filterOperator = OpGt -> <<">", "?">>
    [] filterOperator = OpGte -> <<">=", "?">>
    [] filterOperator = OpLt -> <<"<", "?">>
    [] filterOperator = OpLte -> <<"<=", "?">>
    [] filterOperator = OpIn -> <<"IN", "(">> \o Placeholders(values) \o <<")">>
    [] filterOperator = OpNin -> <<"NOT IN", "(">> \o Placeholders(values) \o <<")">>
    [] filterOperator = OpEmpty -> <<"IS NULL">>
    [] filterOperator = OpNEmpty -> <<"IS NOT NULL">>
    [] filterOperator = OpBetween -> <<"BETWEEN", "?", "AND", "?">>
    [] filterOperator = OpNBetween -> <<"NOT BETWEEN", "?", "AND", "?">>
    [] OTHER -> FallbackOperator

getJsonOperatorAndValues(filterOperator, filterValue) ==
  LET values == JsonValues(filterOperator, filterValue)
  IN [operator |-> JsonOperator(filterOperator, values), values |-> values]

\* `Number.isFinite(parseFloat(value)) ? 'float' : 'text'`
Cast(value) == IF parseFloat(value).fin THEN "float" ELSE "text"

\* --------------------------------------------------------- buildJsonPath

\* segment.match(/^\[(.+)\]$/)?.[1] ?? segment
Unbracket(segment) ==
  IF Len(segment) >= 3 /\ segment[1] = "[" /\ segment[Len(segment)] = "]"
  THEN SubSeq(segment, 2, Len(segment) - 1)
  ELSE segment

\* /^[A-Za-z_][A-Za-z0-9_]*$/.test(key)  (the model's letters are lower case)
IsIdentifier(key) ==
  /\ Len(key) > 0
  /\ key[1] \in Letters \cup {"_"}
  /\ \A i \in 2..Len(key) : key[i] \in Letters \cup Digits \cup {"_"}

\* key.replace(/"/g, '\\"')
RECURSIVE EscapeQuotes(_)
EscapeQuotes(key) ==
  IF Len(key) = 0 THEN <<>>
  ELSE (IF key[1] = "\"" THEN <<"\\", "\"">> ELSE <<key[1]>>) \o EscapeQuotes(Tail(key))

\* a faulty variant of PathKeys: the root is dropped and nothing else is done
PathKeysAsGiven(filterPath) == [i \in 1..(Len(filterPath) - 1) |-> filterPath[i + 1]]

\* lines 70-73: slice(1), map, filter
PathKeys(filterPath) ==
  SelectSeq([i \in 1..(Len(filterPath) - 1) |-> Unbracket(filterPath[i + 1])],
            LAMBDA segment : ~StartsWithUnderscore(segment))

\* the tokens pushed for keys[index] (lines 78-87)
PathTokens(keys, index) ==
  (IF IsIdentifier(keys[index]) THEN <<".">> \o keys[index]
   ELSE <<".", "\"">> \o EscapeQuotes(keys[index]) \o <<"\"">>)
  \o (IF index < Len(keys) THEN <<"[", "*", "]">> ELSE <<>>)

buildJsonPath(filterPath) ==
  LET keys == PathKeys(filterPath)
  IN <<"$">> \o Concat([index \in 1..Len(keys) |-> PathTokens(keys, index)])

\* ------------------------------------------------------------ the schema

\* filter keys
KeyAnd == <<"_", "a", "n", "d">>
KeyOr == <<"_", "o", "r">>
KeyNone == <<"_", "n", "o", "n", "e">>
KeySome == <<"_", "s", "o", "m", "e">>

\* collections and their fields
CollTest == <<"t", "e", "s", "t">>
CollKid == <<"k", "i", "d">>
FAct == <<"a", "c", "t">>
FMeta == <<"m", "e", "t", "a">>
FName == <<"n", "a", "m", "e">>
FAge == <<"a", "g", "e">>
FItems == <<"i", "t", "e", "m", "s">>
FBlocks == <<"b", "l", "o", "c", "k", "s">>
FAuthor == <<"a", "u", "t", "h", "o", "r">>
FId == <<"i", "d">>

\* schema.collections[collection]?.fields[key]?.type ("" when there is none)
FieldType(collection, key) ==
  CASE collection = CollTest /\ key \in {FAct, FMeta} -> "json"
    [] collection = CollTest /\ key \in {FItems, FBlocks} -> "alias"
    [] collection = CollTest /\ key \in {FAuthor, FAge, FId} -> "integer"
    [] collection = CollTest /\ key = FName -> "string"
    [] collection = CollKid /\ key = FAct -> "json"
    [] collection = CollKid /\ key = FName -> "string"
    [] collection = CollKid /\ key \in {FAge, FId, <<"t", "e", "s", "t", "_", "i", "d">>} -> "integer"
    [] OTHER -> ""

\* getRelationInfo(relations, collection, pathRoot).relationType ("" when no
\* relation is found); the relations of the schema: test.items is o2m and
\* test.blocks o2a towards kid, test.author is m2o
getRelationInfo(collection, pathRoot) ==
  CASE collection = CollTest /\ pathRoot = FItems -> "o2m"
    [] collection = CollTest /\ pathRoot = FBlocks -> "o2a"
    [] collection = CollTest /\ pathRoot = FAuthor -> "m2o"
    [] OTHER -> ""

\* relation.collection of the relation found for pathRoot
RelatedCollection(collection, pathRoot) == CollKid

\* ------------------------------------------ getFilterPath, getOperation

isPlainObject(value) == value.t = "obj"

\* Object.keys(value)[0] is defined
HasFirstKey(value) == value.t = "obj" /\ Len(value.e) > 0

RECURSIVE getFilterPath(_, _)
getFilterPath(key, value) ==
  IF ~HasFirstKey(value) THEN <<key>>
  ELSE LET childKey == value.e[1].k
       IN IF StartsWithUnderscore(childKey) /\ childKey \notin {KeyNone, KeySome}
          THEN <<key>>
          ELSE <<key>> \o getFilterPath(childKey, value.e[1].v)

NoOperation == [operator |-> <<>>, value |-> Undef, none |-> TRUE]
Operation(operator, value) == [operator |-> operator, value |-> value, none |-> FALSE]

RECURSIVE getOperation(_, _)
getOperation(key, value) ==
  IF StartsWithUnderscore(key) /\ key \notin {KeyAnd, KeyOr, KeyNone, KeySome}
  THEN Operation(key, value)
  ELSE IF ~isPlainObject(value) THEN Operation(OpEq, value)
  ELSE IF Len(value.e) > 0 THEN getOperation(value.e[1].k, value.e[1].v)
  ELSE NoOperation

\* --------------------------------------------- the query builder (knex)

(* A builder is the sequence of its where-statements.  A statement holds its
   boolean (`bool`, consumed from the builder's and/or flag) and either raw
   SQL with its bindings or what its deferred callback closes over.        *)

\* where(callback) of an _and/_or group
WhereWrapped(bool, key, value, collection) ==
  [type |-> "whereWrapped", bool |-> bool, key |-> key, value |-> value,
   collection |-> collection]

\* whereExists(query) of the row-source registered under aliasKey
WhereExistsQuery(bool, aliasKey) ==
  [type |-> "whereExistsQuery", bool |-> bool, aliasKey |-> aliasKey]

\* whereExists(callback) with fromRaw(.., [jsonPath]) and whereRaw(raw, bindings)
WhereExistsJson(bool, alias, jsonPath, raw, bindings, conditions) ==
  [type |-> "whereExistsJson", bool |-> bool, alias |-> alias, jsonPath |-> jsonPath,
   raw |-> raw, bindings |-> bindings, conditions |-> conditions]

\* applyOperator(knex, dbQuery, schema, column, operator, value, logical, ..)
WhereOperator(bool, column, operator, value) ==
  [type |-> "whereOperator", bool |-> bool, column |-> column,
   operator |-> operator, value |-> value]

\* whereIn / whereNotIn(pkField, subQueryBuilder(filter, subCases))
WhereInSubQuery(bool, not, collection, filter) ==
  [type |-> "whereIn", bool |-> bool, not |-> not, collection |-> collection,
   filter |-> filter]

\* a condition as the compiler holds it
Condition(path, operator, value) ==
  [field |-> path[Len(path)], path |-> path, operator |-> operator, value |-> value]

\* the raw predicate of a single condition (addJsonQuery, line 106)
SingleRaw(filterOperator, filterValue) ==
  <<"((json_value #>> '{}'))::", Cast(filterValue)>>
     \o getJsonOperatorAndValues(filterOperator, filterValue).operator

\* one member of a merged predicate (lines 316-320):
\* `(jsonb_extract_path_text(json_value, ?)::${cast} ${operator})`
MemberRaw(condition) ==
  <<"(", "jsonb_extract_path_text(json_value,", "?", ")::", Cast(condition.value)>>
     \o getJsonOperatorAndValues(condition.operator, condition.value).operator
     \o <<")">>

\* a faulty variant of MemberBindings: the values are pushed before the field name
MemberBindingsValuesFirst(condition) ==
  getJsonOperatorAndValues(condition.operator, condition.value).values
     \o <<Str(condition.field)>>

MemberBindings(condition) ==
  <<Str(condition.field)>>
     \o getJsonOperatorAndValues(condition.operator, condition.value).values

\* whereConditions.join(' AND ') and the bindings pushed in the same loop
MergedRaw(conditions) ==
  Join([i \in 1..Len(conditions) |-> MemberRaw(conditions[i])], <<"AND">>)

MergedBindings(conditions) ==
  Concat([i \in 1..Len(conditions) |-> MemberBindings(conditions[i])])

\* the statement addJsonQuery pushes on query[logical]
addJsonQuery(logical, filterPath, filterOperator, filterValue, alias) ==
  WhereExistsJson(logical, alias, buildJsonPath(filterPath),
                  SingleRaw(filterOperator, filterValue),
                  getJsonOperatorAndValues(filterOperator, filterValue).values,
                  <<Condition(filterPath, filterOperator, filterValue)>>)

\* the statement of a merged group: query.whereExists(callback), and/or flag unset
MergedExists(alias, jsonPath, conditions) ==
  WhereExistsJson("and", alias, jsonPath, MergedRaw(conditions),
                  MergedBindings(conditions), conditions)

\* ------------------------------------------------ the compile context

(* What one applyFilter call owns besides the builders it is given:
     jq        the jsonQueries map, in insertion order; each entry holds the
               row-source builder itself (its alias, its collection and
               field, its where-statements)
     created   the alias keys generateAlias() was called for, in order
     wrappers  the alias keys whose row-source was attached by
               whereExists(query), in order
     rendered  the alias keys whose row-source has been compiled to SQL
     late      the statements pushed on a row-source after it was compiled
     nested    the contexts of the applyFilter calls made for the sub-queries
               of _some/_none, once they are done
     emitted   the whereExists callbacks over a JSON path that have run, in
               the order they ran (those of the sub-queries included)
     assigned  the conditions whose operand, an array of the filter, had its
               element 0 assigned by `filterValue[0] ??= 0`, in order (those
               of the sub-queries included); a condition names its operand by
               the path of keys that leads to it
     joins     the paths addJoin was called with by addJoins, in order
     groups    the number of where(callback) callbacks that have run
     group     the builder being filled: 0 for the builder applyFilter was
               given, n for the builder of the n-th callback that ran
     foreign   the statements pushed on a row-source whose EXISTS wrapper
               was attached to another builder than the one being filled
     err       "" or the reason of the InvalidQueryError thrown             *)
NewContext ==
  [jq |-> <<>>, created |-> <<>>, wrappers |-> <<>>, rendered |-> <<>>,
   late |-> <<>>, nested |-> <<>>, emitted |-> <<>>, assigned |-> <<>>,
   joins |-> <<>>, groups |-> 0, group |-> 0, foreign |-> <<>>, err |-> ""]

\* generateAlias(): a fresh name for each call
AliasNames == <<"jsonal1", "jsonal2", "jsonal3", "jsonal4">>
generateAlias(c) ==
  IF Len(c.created) < Len(AliasNames) THEN AliasNames[Len(c.created) + 1] ELSE "jsonalN"

\* `${collection}.${key}`
AliasKey(collection, key) == collection \o <<".">> \o key

\* a faulty variant of jsonQueriesHas: the registry is never consulted
jsonQueriesHasNot(c, aliasKey) == FALSE

\* jsonQueries.has(aliasKey)
jsonQueriesHas(c, aliasKey) == \E i \in 1..Len(c.jq) : c.jq[i].aliasKey = aliasKey

\* jsonQueries.get(aliasKey)
jsonQueriesGet(c, aliasKey) ==
  c.jq[CHOOSE i \in 1..Len(c.jq) :
         /\ c.jq[i].aliasKey = aliasKey
         /\ \A j \in 1..(i - 1) : c.jq[j].aliasKey # aliasKey]

(* `if (!jsonQueries.has(aliasKey)) { alias = generateAlias(); query = ...;
   jsonQueries.set(aliasKey, {alias, query}); dbQuery.whereExists(query) }`
   on the pair r = [c |-> context, q |-> dbQuery's statements]
   (index 508-518 and 540-550, json-query.ts 288-298)                       *)
EnsureRowSource(r, collection, key) ==
  LET aliasKey == AliasKey(collection, key)
  IN IF jsonQueriesHas(r.c, aliasKey) THEN r
     ELSE [r EXCEPT
             !.c.jq = Append(@, [aliasKey |-> aliasKey, alias |-> generateAlias(r.c),
                                 collection |-> collection, field |-> key,
                                 group |-> r.c.group, stmts |-> <<>>]),
             !.c.created = Append(@, aliasKey),
             !.c.wrappers = Append(@, aliasKey),
             !.q = Append(@, WhereExistsQuery("and", aliasKey))]

\* `filterValue[0] ??= 0` (line 36) assigns: the operand of _between/_nbetween
\* has no element 0, or an undefined one
AssignsLower(condition) ==
  /\ condition.operator \in {OpBetween, OpNBetween}
  /\ condition.value.t = "arr"
  /\ IsNullish(Index(condition.value, 0))

\* the array after the assignment
LowerAssigned(value) ==
  Arr(IF Len(value.a) = 0 THEN <<Num(0)>> ELSE [value.a EXCEPT ![1] = Num(0)])

\* the assignments getJsonOperatorAndValues makes when it is called for the
\* conditions in order
Assignments(conditions) == SelectSeq(conditions, AssignsLower)

\* query.whereExists(..) on the row-source registered under aliasKey; the
\* statement of addJsonQuery (one condition) has had its operator and values
\* computed before (line 97), that of a merged group has not (lines 188, 317)
PushOnRowSource(c, aliasKey, stmt) ==
  [c EXCEPT
     !.assigned = IF Len(stmt.conditions) = 1 THEN @ \o Assignments(stmt.conditions)
                  ELSE @,
     !.jq = [i \in 1..Len(c.jq) |->
               IF c.jq[i].aliasKey = aliasKey
               THEN [c.jq[i] EXCEPT !.stmts = Append(@, stmt)] ELSE c.jq[i]],
     !.late = IF Count(aliasKey, c.rendered) > 0 THEN Append(@, stmt) ELSE @,
     !.foreign = IF jsonQueriesGet(c, aliasKey).group # c.group THEN Append(@, stmt)
                 ELSE @]

\* --------------------------------------------- grouping of conditions

\* Map<string, conditions[]> in insertion order: <<[key, conditions]>>
MapHas(map, key) == \E i \in 1..Len(map) : map[i].key = key
MapGet(map, key) == map[CHOOSE i \in 1..Len(map) : map[i].key = key].conditions

\* `if (!map.has(key)) map.set(key, []); map.get(key).push(condition)`
MapPush(map, key, condition) ==
  IF MapHas(map, key)
  THEN [i \in 1..Len(map) |->
          IF map[i].key = key
          THEN [map[i] EXCEPT !.conditions = Append(@, condition)] ELSE map[i]]
  ELSE Append(map, [key |-> key, conditions |-> <<condition>>])

\* path.slice(0, -1)
DropLast(path) == SubSeq(path, 1, Len(path) - 1)

\* Object.entries of a list of filters, flattened in order
AllEntries(subFilters) ==
  Concat([i \in 1..Len(subFilters) |->
            IF subFilters[i].t = "obj" THEN subFilters[i].e ELSE <<>>])

\* --------------------------------------------- handleJsonFieldWithAndOr

\* lines 135-151 and 204-214: the conditions of the sub-filters of a nested list
NestedConditions(key, nestedValue) ==
  LET entries == AllEntries(nestedValue.a)
      withOperation == SelectSeq(entries, LAMBDA en : ~getOperation(en.k, en.v).none)
  IN [i \in 1..Len(withOperation) |->
        Condition(<<key>> \o getFilterPath(withOperation[i].k, withOperation[i].v),
                  getOperation(withOperation[i].k, withOperation[i].v).operator,
                  getOperation(withOperation[i].k, withOperation[i].v).value)]

\* lines 154-164: grouped by `condition.path.slice(0, -1).join('.')`
RECURSIVE GroupByBasePath(_, _)
GroupByBasePath(map, conditions) ==
  IF Len(conditions) = 0 THEN map
  ELSE GroupByBasePath(
         MapPush(map, Join(DropLast(conditions[1].path), <<".">>), conditions[1]),
         Tail(conditions))

\* lines 167-201: one statement per group
NestedAndStatement(groupConditions, alias, logical) ==
  IF Len(groupConditions) > 1
  THEN MergedExists(alias, buildJsonPath(DropLast(groupConditions[1].path)),
                    groupConditions)
  ELSE addJsonQuery(logical, groupConditions[1].path, groupConditions[1].operator,
                    groupConditions[1].value, alias)

\* the statements one entry of the value of a JSON field pushes on the row-source
NestedStatements(key, nestedKey, nestedValue, alias, logical) ==
  IF nestedKey = KeyAnd
  THEN LET groups == GroupByBasePath(<<>>, NestedConditions(key, nestedValue))
       IN [i \in 1..Len(groups) |->
             NestedAndStatement(groups[i].conditions, alias, logical)]
  ELSE IF nestedKey = KeyOr
  THEN LET conditions == NestedConditions(key, nestedValue)
       IN [i \in 1..Len(conditions) |->
             addJsonQuery("or", conditions[i].path, conditions[i].operator,
                          conditions[i].value, alias)]
  ELSE IF getOperation(nestedKey, nestedValue).none THEN <<>>
  ELSE <<addJsonQuery(logical, <<key>> \o getFilterPath(nestedKey, nestedValue),
                      getOperation(nestedKey, nestedValue).operator,
                      getOperation(nestedKey, nestedValue).value, alias)>>

RECURSIVE PushAllOnRowSource(_, _, _)
PushAllOnRowSource(c, aliasKey, stmts) ==
  IF Len(stmts) = 0 THEN c
  ELSE PushAllOnRowSource(PushOnRowSource(c, aliasKey, stmts[1]), aliasKey, Tail(stmts))

handleJsonFieldWithAndOr(c, aliasKey, key, value, logical) ==
  LET alias == jsonQueriesGet(c, aliasKey).alias
  IN PushAllOnRowSource(c, aliasKey,
       Concat([i \in 1..Len(value.e) |->
                 NestedStatements(key, value.e[i].k, value.e[i].v, alias, logical)]))

\* ------------------------------------ handleCombinedJsonConditionsInAnd

\* isObject of @directus/utils: typeof value === 'object' && value !== null
isObject(value) == value.t \in {"obj", "arr"}

\* Object.values(subValue)[0]
FirstValue(value) == IF HasFirstKey(value) THEN value.e[1].v ELSE Undef

\* `${subKey}.${basePath.slice(1).join('.')}` (line 255)
BasePathKey(subKey, basePath) == subKey \o <<".">> \o Join(Tail(basePath), <<".">>)

\* lines 242-272: the JSON conditions of the sub-filters, by basePathKey
RECURSIVE CollectJsonConditions(_, _, _)
CollectJsonConditions(map, entries, collection) ==
  IF Len(entries) = 0 THEN map
  ELSE
    LET subKey == entries[1].k
        subValue == entries[1].v
        nestedPath == getFilterPath(subKey, subValue)
        operation == getOperation(nestedPath[2], FirstValue(subValue))
        fullPath == <<subKey>> \o Tail(nestedPath)
        taken == /\ FieldType(collection, subKey) = "json"
                 /\ isObject(subValue)
                 /\ Len(nestedPath) > 1
                 /\ ~operation.none
    IN CollectJsonConditions(
         IF taken
         THEN MapPush(map, BasePathKey(subKey, DropLast(fullPath)),
                      Condition(fullPath, operation.operator, operation.value))
         ELSE map,
         Tail(entries), collection)

\* lines 278-284: the JSON path of a merged group, rebuilt from its key
MergedJsonPath(basePathKey) ==
  buildJsonPath(Split(basePathKey, ".")) \o <<"[", "*", "]">>

\* lines 275-326 for the groups from index i on, on r = [c, q] (q: subQuery)
RECURSIVE EmitMergedGroups(_, _, _, _)
EmitMergedGroups(r, map, i, collection) ==
  IF i > Len(map) THEN r
  ELSE
    LET fieldName == Split(map[i].key, ".")[1]
        emitted == Len(map[i].conditions) > 1 /\ Len(fieldName) > 0
        r1 == EnsureRowSource(r, collection, fieldName)
        aliasKey == AliasKey(collection, fieldName)
    IN EmitMergedGroups(
         IF emitted
         THEN [r1 EXCEPT !.c = PushOnRowSource(r1.c, aliasKey,
                 MergedExists(jsonQueriesGet(r1.c, aliasKey).alias,
                              MergedJsonPath(map[i].key), map[i].conditions))]
         ELSE r,
         map, i + 1, collection)

\* returns [c, q, jsonConditions]
handleCombinedJsonConditionsInAnd(r, subFilters, collection) ==
  LET jsonConditions == CollectJsonConditions(<<>>, AllEntries(subFilters), collection)
      r1 == EmitMergedGroups(r, jsonConditions, 1, collection)
  IN [c |-> r1.c, q |-> r1.q, jsonConditions |-> jsonConditions]

\* ------------------------------------------------------ addWhereClauses

ErrNone == "\"_none\" can only be used with top level relational alias field"
ErrSome == "\"_some\" can only be used with top level relational alias field"
ErrOperator == "operator is not valid for the type of the field"

Includes(seq, x) == \E i \in 1..Len(seq) : seq[i] = x

\* `'_and' in value || '_or' in value`
HasAndOrKey(value) ==
  value.t = "obj" /\ \E i \in 1..Len(value.e) : value.e[i].k \in {KeyAnd, KeyOr}

\* a faulty variant of SomeEmpty: an empty child is never found
SomeEmptyNever(value) == FALSE

\* value.some((subFilter) => Object.keys(subFilter).length === 0)
SomeEmpty(value) ==
  \E i \in 1..Len(value.a) : value.a[i].t = "obj" /\ Len(value.a[i].e) = 0

\* filterPath.length > 1 || (!(key.includes('(') && key.includes(')')) && type === 'alias')
IsDeep(filterPath, key, collection) ==
  \/ Len(filterPath) > 1
  \/ (~(Includes(key, "(") /\ Includes(key, ")")) /\ FieldType(collection, key) = "alias")

\* the SQL name of a collection or field
Name(chars) ==
  CASE chars = CollTest -> "test" [] chars = CollKid -> "kid"
    [] chars = FAct -> "act" [] chars = FMeta -> "meta" [] chars = FName -> "name"
    [] chars = FAge -> "age" [] chars = FItems -> "items" [] chars = FBlocks -> "blocks"
    [] chars = FAuthor -> "author" [] chars = FId -> "id"
    [] OTHER -> "column"

\* validateOperator(type, filterOperator, special): the operators of text
\* matching are rejected on a field that is not text
validateOperator(type, filterOperator) ==
  IF /\ filterOperator \in {OpContains, OpNContains, OpIContains, OpNIContains,
                            OpStartsWith, OpEndsWith}
     /\ type # "string"
  THEN ErrOperator ELSE ""

\* validateOperator then applyOperator on r = [c, q]
ValidateAndApply(r, type, column, filterOperator, filterValue, logical) ==
  IF validateOperator(type, filterOperator) # ""
  THEN [r EXCEPT !.c.err = validateOperator(type, filterOperator)]
  ELSE [r EXCEPT !.q = Append(@, WhereOperator(logical, column, filterOperator,
                                                filterValue))]

\* a faulty variant of JsonKeyStatements: the JSON field is left out of the path,
\* so the first sub-path segment is the one buildJsonPath drops
JsonKeyStatementsShortPath(key, nestedKey, nestedValue, alias, logical) ==
  IF nestedKey \in {KeyAnd, KeyOr} \/ getOperation(nestedKey, nestedValue).none
  THEN <<>>
  ELSE <<addJsonQuery(logical, getFilterPath(nestedKey, nestedValue),
                      getOperation(nestedKey, nestedValue).operator,
                      getOperation(nestedKey, nestedValue).value, alias)>>

\* index 558-585: the statements one key of the value of a JSON field pushes
JsonKeyStatements(key, nestedKey, nestedValue, alias, logical) ==
  IF nestedKey \in {KeyAnd, KeyOr}
  THEN LET conditions == NestedConditions(key, nestedValue)
       IN [i \in 1..Len(conditions) |->
             addJsonQuery(IF nestedKey = KeyAnd THEN "and" ELSE "or",
                          conditions[i].path, conditions[i].operator,
                          conditions[i].value, alias)]
  ELSE IF getOperation(nestedKey, nestedValue).none THEN <<>>
  ELSE <<addJsonQuery(logical, <<key>> \o getFilterPath(nestedKey, nestedValue),
                      getOperation(nestedKey, nestedValue).operator,
                      getOperation(nestedKey, nestedValue).value, alias)>>

\* index 537-588: a deep path into a JSON field
JsonDeepPath(r, key, value, collection, logical) ==
  LET r1 == EnsureRowSource(r, collection, key)
      aliasKey == AliasKey(collection, key)
      alias == jsonQueriesGet(r1.c, aliasKey).alias
  IN [r1 EXCEPT !.c = PushAllOnRowSource(r1.c, aliasKey,
        Concat([i \in 1..Len(value.e) |->
                  JsonKeyStatements(key, value.e[i].k, value.e[i].v, alias, logical)]))]

\* a faulty variant of RelationDeepPath: the test for _none/_some in the path
\* is left out
RelationDeepPathUnchecked(r, key, value, filterPath, operation, collection, logical) ==
  IF getRelationInfo(collection, Split(filterPath[1], ":")[1]) = "" THEN r
  ELSE IF /\ getRelationInfo(collection, Split(filterPath[1], ":")[1]) \in {"o2m", "o2a"}
          /\ HasFirstKey(value)
          /\ value.e[1].k \in {KeyNone, KeySome}
  THEN [r EXCEPT !.q = Append(@, WhereInSubQuery(logical, value.e[1].k = KeyNone,
                        RelatedCollection(collection, Split(filterPath[1], ":")[1]),
                        FirstValue(value)))]
  ELSE ValidateAndApply(r,
         FieldType(RelatedCollection(collection, Split(filterPath[1], ":")[1]),
                   filterPath[Len(filterPath)]),
         <<Name(RelatedCollection(collection, Split(filterPath[1], ":")[1])), ".",
           Name(filterPath[Len(filterPath)])>>,
         operation.operator, operation.value, logical)

\* index 590-662: a deep path that is not into a JSON field
RelationDeepPath(r, key, value, filterPath, operation, collection, logical) ==
  LET pathRoot == Split(filterPath[1], ":")[1]
      relationType == getRelationInfo(collection, pathRoot)
      childKey == IF HasFirstKey(value) THEN value.e[1].k ELSE <<>>
      target == RelatedCollection(collection, pathRoot)
  IN IF relationType = "" THEN r
     ELSE IF relationType \in {"o2m", "o2a"} /\ childKey \in {KeyNone, KeySome}
     THEN [r EXCEPT !.q = Append(@, WhereInSubQuery(logical, childKey = KeyNone,
                                                     target, FirstValue(value)))]
     ELSE IF Includes(filterPath, KeyNone) THEN [r EXCEPT !.c.err = ErrNone]
     ELSE IF Includes(filterPath, KeySome) THEN [r EXCEPT !.c.err = ErrSome]
     ELSE ValidateAndApply(r, FieldType(target, filterPath[Len(filterPath)]),
                           <<Name(target), ".", Name(filterPath[Len(filterPath)])>>,
                           operation.operator, operation.value, logical)

\* one iteration of the loop of addWhereClauses (index 438-681) on r = [c, q]
AddWhereEntry(r, key, value, collection, logical) ==
  IF key \in {KeyOr, KeyAnd}
  THEN IF key = KeyOr /\ SomeEmpty(value) THEN r
       ELSE [r EXCEPT !.q = Append(@, WhereWrapped(logical, key, value, collection))]
  ELSE
    LET filterPath == getFilterPath(key, value)
        operation == getOperation(key, value)
    IN IF FieldType(collection, key) = "json" /\ isObject(value) /\ HasAndOrKey(value)
       THEN LET r1 == EnsureRowSource(r, collection, key)
            IN [r1 EXCEPT !.c = handleJsonFieldWithAndOr(
                  r1.c, AliasKey(collection, key), key, value, logical)]
       ELSE IF operation.none THEN r
       ELSE IF IsDeep(filterPath, key, collection)
       THEN IF FieldType(collection, key) = "json"
            THEN JsonDeepPath(r, key, value, collection, logical)
            ELSE RelationDeepPath(r, key, value, filterPath, operation, collection,
                                  logical)
       ELSE ValidateAndApply(r, FieldType(collection, filterPath[1]),
                             <<Name(collection), ".", Name(filterPath[1])>>,
                             operation.operator, operation.value, logical)

\* the loop over Object.entries(filter) from entry i on; a throw ends it
RECURSIVE AddWhereFrom(_, _, _, _, _)
AddWhereFrom(r, filter, i, collection, logical) ==
  IF i > Len(filter.e) \/ r.c.err # "" THEN r
  ELSE AddWhereFrom(AddWhereEntry(r, filter.e[i].k, filter.e[i].v, collection, logical),
                    filter, i + 1, collection, logical)

addWhereClauses(r, filter, collection, logical) ==
  AddWhereFrom(r, filter, 1, collection, logical)

\* ------------------------------------------------------------- addJoins

(* `value !== cases` compares two arrays by reference.  An array of the
   filter is named by its position: the indices of the entries and list
   elements that lead to it from the root filter.  NoCases is the position of
   a cases array that is no array of the filter.                            *)
NoCases == <<0>>

\* a faulty variant of SkipsJoins: the list is skipped whatever it is
SkipsJoinsAlways(value, at, casesAt) == TRUE

\* `value !== cases || value.length === 1` (index 388)
SkipsJoins(value, at, casesAt) == at # casesAt \/ Len(value.a) = 1

\* `value.filter((subFilter) => Object.keys(subFilter).length > 0)` (index 392),
\* as the indices kept
NonEmptyIndices(value) ==
  SelectSeq([j \in 1..Len(value.a) |-> j],
            LAMBDA j : ~(value.a[j].t = "obj" /\ Len(value.a[j].e) = 0))

AllIndices(value) == [j \in 1..Len(value.a) |-> j]

(* addJoins(dbQuery, filter, collection) for the filter at position `at`
   (index 377-428): the paths addJoin is called with, in order.  addJoin plans
   the joins of a path; no where-statement is added here.                   *)
RECURSIVE addJoins(_, _, _, _)
addJoins(filter, at, casesAt, collection) ==
  Concat([i \in 1..Len(filter.e) |->
    IF filter.e[i].k \in {KeyOr, KeyAnd}
    THEN IF /\ filter.e[i].k = KeyOr
            /\ SomeEmpty(filter.e[i].v)
            /\ SkipsJoins(filter.e[i].v, Append(at, i), casesAt)
         THEN <<>>
         ELSE LET kept == IF filter.e[i].k = KeyOr /\ SomeEmpty(filter.e[i].v)
                          THEN NonEmptyIndices(filter.e[i].v)
                          ELSE AllIndices(filter.e[i].v)
              IN Concat([j \in 1..Len(kept) |->
                           addJoins(filter.e[i].v.a[kept[j]],
                                    at \o <<i, kept[j]>>, casesAt, collection)])
    ELSE IF IsDeep(getFilterPath(filter.e[i].k, filter.e[i].v), filter.e[i].k,
                   collection)
         THEN <<getFilterPath(filter.e[i].k, filter.e[i].v)>>
         ELSE <<>>])

\* ----------------------------------------- the deferred where-callbacks

\* index 463-472: the sub-filter has a JSON key whose group was merged
\* `${k}.${getFilterPath(k, subFilter[k]).slice(1, -1).join('.')}` (index 467)
SkipPathKey(k, path) == k \o <<".">> \o Join(SubSeq(path, 2, Len(path) - 1), <<".">>)

shouldSkip(subFilter, jsonConditions, collection) ==
  \E i \in 1..Len(subFilter.e) :
    LET k == subFilter.e[i].k
        path == getFilterPath(k, subFilter.e[i].v)
        basePathKey == SkipPathKey(k, path)
    IN /\ FieldType(collection, k) = "json"
       /\ MapHas(jsonConditions, basePathKey)
       /\ Len(MapGet(jsonConditions, basePathKey)) > 1

\* index 460-477 and 485-487: the loop over the sub-filters of a group
RECURSIVE AddSubFilters(_, _, _, _, _, _)
AddSubFilters(r, subFilters, i, jsonConditions, collection, logical) ==
  IF i > Len(subFilters) \/ r.c.err # "" THEN r
  ELSE AddSubFilters(
         IF logical = "and" /\ shouldSkip(subFilters[i], jsonConditions, collection)
         THEN r
         ELSE addWhereClauses(r, subFilters[i], collection, logical),
         subFilters, i + 1, jsonConditions, collection, logical)

\* knex calls the callback with a new builder
NewBuilder(c) ==
  [c |-> [c EXCEPT !.groups = @ + 1, !.group = c.groups + 1], q |-> <<>>]

\* the callback of a group, run on a new builder: [c, q] when it returns
GroupCallback(c, st) ==
  IF st.key = KeyAnd
  THEN LET h == handleCombinedJsonConditionsInAnd(NewBuilder(c), st.value.a,
                                                  st.collection)
       IN AddSubFilters([c |-> h.c, q |-> h.q], st.value.a, 1, h.jsonConditions,
                        st.collection, "and")
  ELSE AddSubFilters(NewBuilder(c), st.value.a, 1, <<>>, st.collection, "or")

\* ------------------------------------------------- rendering (toSQL)

(* knex compiles the where-statements of a builder in order.  A statement
   that compiles to the empty string is left out; the others are joined by
   their own `bool`, the first one's being dropped.  A callback is run on a
   new builder, which is compiled as soon as the callback returns; a builder
   given as a value is compiled with the statements it holds at that time.
   The result is [c, sql, bindings].                                        *)

\* a compilation under way: the statements q, and the where clause and the
\* bindings compiled so far
Compile(c, q) == [c |-> c, q |-> q, sql |-> <<>>, bindings |-> <<>>]

CompileGroup(g) == Compile(g.c, g.q)

\* whereWrapped: '(' + the group's where clause + ')', or '' for an empty
\* group; w is the compiled group
RenderWrapped(w) ==
  IF w.c.err # "" \/ w.sql = <<>> THEN [w EXCEPT !.sql = <<>>, !.bindings = <<>>]
  ELSE [w EXCEPT !.sql = <<"(">> \o @ \o <<")">>]

\* whereExists(query): the row-source with the statements it holds now,
\* compiled to w
RenderExistsQuery(st, w) ==
  LET query == jsonQueriesGet(w.c, st.aliasKey)
  IN [w EXCEPT
        !.c = [@ EXCEPT !.rendered = Append(@, st.aliasKey)],
        !.sql = <<"exists", "(", "select * from json_array_elements(",
                  Name(query.collection), ".", Name(query.field), ") as", query.alias>>
                \o (IF @ = <<>> THEN <<>> ELSE <<"where">> \o @)
                \o <<")">>]

\* whereExists(callback) of addJsonQuery and of a merged group
RenderExistsJson(c, st) ==
  [c |-> [c EXCEPT !.emitted = Append(@, st),
                   !.assigned = IF Len(st.conditions) > 1
                                THEN @ \o Assignments(st.conditions) ELSE @],
   sql |-> <<"exists", "(", "select 1 from jsonb_path_query((", st.alias, ")::jsonb,",
             "?", ") as json_path_value(json_value)", "where">> \o st.raw \o <<")">>,
   bindings |-> <<Str(st.jsonPath)>> \o st.bindings]

\* applyOperator: the comparison of a column, by the table of operators
OperatorResult(c, column, o) ==
  [c |-> c, sql |-> column \o o.operator, bindings |-> o.values]

RenderOperator(c, st) ==
  OperatorResult(c, st.column, getJsonOperatorAndValues(st.operator, st.value))

\* whereIn/whereNotIn(pkField, callback): applyQuery compiles the filter of
\* _some/_none on the related collection by an applyFilter call of its own;
\* w is its compiled where clause
RenderWhereIn(c, st, w) ==
  [c |-> [c EXCEPT !.nested = Append(@, [w.c EXCEPT !.nested = <<>>]),
                   !.emitted = w.c.emitted,
                   !.assigned = w.c.assigned,
                   !.err = w.c.err],
   sql |-> <<"test.id", IF st.not THEN "not in" ELSE "in", "(",
             "select", Name(st.collection), "where not null">>
           \o (IF w.c.err # "" \/ w.sql = <<>> THEN <<>> ELSE <<"and">> \o w.sql)
           \o <<")">>,
   bindings |-> IF w.c.err # "" THEN <<>> ELSE w.bindings]

\* the where clause grows by one compiled statement v, joined by its bool;
\* the builder of r is the one being filled again
AppendStatement(r, bool, v) ==
  IF v.sql = <<>> \/ v.c.err # "" THEN [r EXCEPT !.c = [v.c EXCEPT !.group = r.c.group]]
  ELSE [r EXCEPT !.c = [v.c EXCEPT !.group = r.c.group],
                 !.sql = @ \o (IF @ = <<>> THEN <<>> ELSE <<bool>>) \o v.sql,
                 !.bindings = @ \o v.bindings]

\* the where clause of the statements of r.q from index i on
RECURSIVE Render(_, _)
Render(r, i) ==
  IF i > Len(r.q) \/ r.c.err # "" THEN r
  ELSE Render(
         AppendStatement(r, r.q[i].bool,
           CASE r.q[i].type = "whereWrapped" ->
                  RenderWrapped(Render(CompileGroup(GroupCallback(r.c, r.q[i])), 1))
             [] r.q[i].type = "whereExistsQuery" ->
                  RenderExistsQuery(r.q[i],
                    Render(Compile(r.c, jsonQueriesGet(r.c, r.q[i].aliasKey).stmts), 1))
             [] r.q[i].type = "whereExistsJson" -> RenderExistsJson(r.c, r.q[i])
             [] r.q[i].type = "whereOperator" -> RenderOperator(r.c, r.q[i])
             [] r.q[i].type = "whereIn" ->
                  RenderWhereIn(r.c, r.q[i],
                    Render(CompileGroup(addWhereClauses(
                             [c |-> [NewContext EXCEPT
                                       !.emitted = r.c.emitted,
                                       !.assigned = r.c.assigned,
                                       !.joins = addJoins(r.q[i].filter, <<>>, NoCases,
                                                          r.q[i].collection)],
                              q |-> <<>>],
                             r.q[i].filter, r.q[i].collection, "and")), 1))),
         i + 1)

\* queryBuilder.toSQL() of the root query
Select(w) ==
  [c |-> w.c,
   sql |-> <<"select *">> \o (IF w.sql = <<>> THEN <<>> ELSE <<"where">> \o w.sql),
   bindings |-> w.bindings]

toSQL(c, stmts) == Select(Render(Compile(c, stmts), 1))

\* ------------------------------------------------------------ the inputs

RECURSIVE SeqsOfLen(_, _)
SeqsOfLen(S, n) ==
  IF n = 0 THEN {<<>>}
  ELSE LET shorter == SeqsOfLen(S, n - 1)
       IN {Append(p, x) : p \in shorter, x \in S}

\* the sequences over S of a length in lo..hi
Seqs(S, lo, hi) == UNION {SeqsOfLen(S, n) : n \in lo..hi}

\* path segments
SType == <<"t", "y", "p", "e">>
SNum == <<"n", "u", "m">>
SDel == <<"d", "e", "l">>
SBen == <<"b", "e", "n">>
SDotted == <<"a", ".", "b">>
SA == <<"a">>
SB == <<"b">>
SQuoted == <<"q", "\"", "t">>
SPrivate == <<"_", "x">>
SIndex == <<"[", "0", "]">>
SDigit == <<"9", "a">>

\* operands
VT1 == Str(<<"t", "1">>)
VT2 == Str(<<"t", "2">>)
VCool == Str(<<"c", "o", "o", "l">>)
VTwelve == Str(<<"1", "2">>)
VList == Str(<<"a", ",", "b">>)
VEmpty == Str(<<>>)

\* {seg1: {seg2: ... leaf}}
RECURSIVE Nest(_, _)
Nest(segs, leaf) ==
  IF Len(segs) = 0 THEN leaf ELSE Obj(<<KV(segs[1], Nest(Tail(segs), leaf))>>)

\* {field: {seg..: {operator: value}}}
Cond(path, operator, value) == Nest(path, Obj(<<KV(operator, value)>>))

\* the base paths (below the JSON field) of the generated conditions
BasePaths == {<<>>, <<SDel>>, <<SBen, SDel>>, <<SDotted>>, <<SA, SB>>}

\* (final field, operator, operand) of the members of a merged group
Members ==
  {<<SType, OpEq, VT1>>, <<SNum, OpGte, Num(2)>>, <<SNum, OpGte, VTwelve>>,
   <<SType, OpIn, Arr(<<VT1, VT2>>)>>, <<SNum, OpBetween, Arr(<<Undef, Num(5)>>)>>,
   <<SType, OpNEmpty, Num(1)>>, <<SType, OpUnknown, VT1>>, <<SNum, OpUnknown, Num(7)>>}

MemberCond(field, base, m) == Cond(<<field>> \o base \o <<m[1]>>, m[2], m[3])

\* one condition on a JSON field
ActDelType == Cond(<<FAct, SDel, SType>>, OpEq, VT1)
ActDelType2 == Cond(<<FAct, SDel, SType>>, OpEq, VT2)
ActDelNum == Cond(<<FAct, SDel, SNum>>, OpGte, Num(2))
ActBenType == Cond(<<FAct, SBen, SType>>, OpEq, VT2)
ActBenDelType == Cond(<<FAct, SBen, SDel, SType>>, OpEq, VT1)
ActType == Cond(<<FAct, SType>>, OpEq, VT1)
ActNum == Cond(<<FAct, SNum>>, OpGte, Num(2))
MetaDelType == Cond(<<FMeta, SDel, SType>>, OpEq, VT1)
MetaDelNum == Cond(<<FMeta, SDel, SNum>>, OpLt, Num(7))
ActDelRegex == Cond(<<FAct, SDel, SType>>, OpUnknown, VT1)
ActNumRegex == Cond(<<FAct, SNum>>, OpUnknown, Num(7))
ActDelBetween == Cond(<<FAct, SDel, SNum>>, OpBetween, Arr(<<Undef, Num(5)>>))
ActNumNBetween == Cond(<<FAct, SNum>>, OpNBetween, Arr(<<>>))

\* a JSON field with several sub-paths
ActTwoKeys ==
  Obj(<<KV(FAct, Obj(<<KV(SBen, Cond(<<SType>>, OpEq, VT2).e[1].v),
                       KV(SDel, Cond(<<SType>>, OpEq, VT1).e[1].v)>>))>>)
ActThreeKeys ==
  Obj(<<KV(FAct, Obj(<<KV(SDel, Obj(<<KV(SType, Obj(<<KV(OpEq, VT1)>>))>>)),
                       KV(SNum, Obj(<<KV(OpGte, Num(2))>>)),
                       KV(SDotted, Obj(<<KV(SNum, Obj(<<KV(OpIn, VList)>>))>>))>>))>>)
MetaTwoKeys ==
  Obj(<<KV(FMeta, Obj(<<KV(SType, Obj(<<KV(OpContains, VCool)>>)),
                        KV(SBen, Obj(<<KV(SDel, Obj(<<KV(SNum, Obj(<<KV(OpBetween,
                                        Arr(<<Num(3), Undef>>))>>))>>))>>))>>))>>)

\* a JSON field whose value holds _and/_or
ActNestedAnd ==
  Obj(<<KV(FAct, Obj(<<KV(KeyAnd, Arr(<<Cond(<<SDel, SType>>, OpEq, VT1),
                                        Cond(<<SDel, SNum>>, OpGte, Num(2)),
                                        Cond(<<SBen, SType>>, OpEq, VT2)>>))>>))>>)
ActNestedOr ==
  Obj(<<KV(FAct, Obj(<<KV(KeyOr, Arr(<<Cond(<<SDel, SType>>, OpEq, VT1),
                                       Cond(<<SDel, SNum>>, OpGte, Num(2))>>))>>))>>)

\* plain columns
NameCool == Cond(<<FName>>, OpEq, VCool)
NameContains == Cond(<<FName>>, OpContains, VCool)
AgeGt == Cond(<<FAge>>, OpGt, VTwelve)
AgeContains == Cond(<<FAge>>, OpContains, VCool)
EmptyFilter == Obj(<<>>)

\* relational fields: items (o2m), blocks (o2a), author (m2o)
RelationFilters ==
  {Nest(<<rel>> \o path, inner) :
     rel \in {FItems, FBlocks, FAuthor},
     path \in {<<KeyNone>>, <<KeySome>>, <<FName, KeyNone>>, <<FName, KeySome>>,
               <<FName, FAge, KeyNone>>},
     inner \in {NameCool, ActDelType, EmptyFilter}}
  \cup {Cond(<<rel, FName>>, OpEq, VCool) : rel \in {FItems, FBlocks, FAuthor}}
  \cup {Obj(<<KV(FItems, Obj(<<KV(KeySome, Obj(<<KV(KeyAnd,
                Arr(<<ActDelType, ActDelNum>>))>>))>>))>>),
        Obj(<<KV(FItems, Obj(<<KV(KeyNone, Cond(<<FAuthor, KeyNone, FName>>,
                                                   OpEq, VCool))>>))>>)}

\* _none/_some below a column that is no relation: name (string), age (integer)
ScalarTokenFilters ==
  {Nest(<<f, token>>, inner) :
     f \in {FName, FAge}, token \in {KeyNone, KeySome}, inner \in {NameCool, AgeGt}}

\* the filters that stand alone or as a child of one list
Atoms ==
  {ActDelType, ActDelType2, ActDelNum, ActBenType, ActBenDelType, ActType, ActNum,
   MetaDelType, MetaDelNum, ActTwoKeys, ActThreeKeys, MetaTwoKeys, ActNestedAnd,
   ActNestedOr, NameCool, NameContains, AgeGt, AgeContains, EmptyFilter,
   ActDelRegex, ActNumRegex, ActDelBetween, ActNumNBetween,
   Nest(<<FItems, KeySome>>, ActDelBetween)}
  \cup RelationFilters \cup ScalarTokenFilters

\* the children of the generated lists
ListAtoms ==
  {ActDelType, ActDelNum, ActType, ActNum, ActBenType, MetaDelType, ActTwoKeys,
   Cond(<<FAct, SDotted, SType>>, OpEq, VT1), Cond(<<FAct, SA, SB, SNum>>, OpGte, Num(2)),
   NameCool, EmptyFilter, Nest(<<FAuthor, KeyNone>>, NameCool)}

\* the children of the _and branches of a nested group
BranchAtoms == {ActDelType, ActDelNum, ActDelType2}

Group(key, children) == Obj(<<KV(key, Arr(children))>>)

\* {_and: [..]} and {_or: [..]} over the list atoms
ListFilters ==
  {Group(key, l) : key \in {KeyAnd, KeyOr}, l \in Seqs(ListAtoms, 1, MaxList)}

\* {_and: [m1, m2, ..]}: members on one JSON field and one base path
MergeFilters ==
  {Group(KeyAnd, [i \in 1..Len(ms) |-> MemberCond(FAct, base, ms[i])]) :
     base \in BasePaths, ms \in Seqs(Members, 2, MaxList)}

\* {field: {_and: [m1, m2, ..]}}: the same members inside the JSON field
NestedMergeFilters ==
  {Obj(<<KV(FAct, Group(KeyAnd, [i \in 1..Len(ms) |->
                                   Cond(base \o <<ms[i][1]>>, ms[i][2], ms[i][3])]))>>) :
     base \in BasePaths, ms \in Seqs(Members, 2, MaxList)}

\* {_or: [{_and: [..]}, {_and: [..]}]} and the like
BranchFilters ==
  {Group(key, <<Group(KeyAnd, l1), Group(KeyAnd, l2)>>) :
     key \in {KeyAnd, KeyOr}, l1 \in Seqs(BranchAtoms, 1, MaxList),
     l2 \in Seqs(BranchAtoms, 1, MaxList)}

\* {_and: [{name: ..}, {_or: [x, y]}]}
MixedFilters ==
  {Group(KeyAnd, <<NameCool, Group(KeyOr, <<x, y>>)>>) :
     x \in {ActDelType, ActBenDelType, MetaDelType, NameContains},
     y \in {ActBenType, ActDelNum, MetaDelNum, AgeGt}}

\* {key: .., _and: [..]} and {_or: [..], key: ..}: a field used directly and in a group
TwoKeyFilters ==
  {Obj(<<x.e[1], KV(key, Arr(l))>>) :
     x \in {ActBenType, ActDelType, MetaDelType, NameCool}, key \in {KeyAnd, KeyOr},
     l \in Seqs(BranchAtoms, 2, 2)}
  \cup {Obj(<<KV(key, Arr(l)), x.e[1]>>) :
     x \in {ActBenType, ActDelType, MetaDelType}, key \in {KeyAnd, KeyOr},
     l \in Seqs(BranchAtoms, 2, 2)}

\* the entries {sub-path: ..} of the value of a JSON field
SubPathEntries ==
  {KV(SBen, Cond(<<SType>>, OpEq, VT2)), KV(SDel, Cond(<<SType>>, OpEq, VT1)),
   KV(SNum, Obj(<<KV(OpGte, Num(2))>>)), KV(SDotted, Cond(<<SNum>>, OpIn, VList)),
   KV(SType, Obj(<<KV(OpContains, VCool)>>))}

\* {field: {k1: .., k2: .., ..}}: a JSON field with several different sub-paths
SubPathFilters ==
  {Obj(<<KV(field, Obj(es))>>) :
     field \in {FAct, FMeta},
     es \in {l \in Seqs(SubPathEntries, 2, MaxList) :
               \A i, j \in 1..Len(l) : i # j => l[i].k # l[j].k}}

\* the lists of two children one of which is the empty filter
ListsWithEmpty ==
  {l \in Seqs({ActDelType, MetaDelType, EmptyFilter}, 2, 2) :
     \E i \in 1..Len(l) : l[i] = EmptyFilter}

\* an _or with an empty child beside another key, before it, or in an _and list
ShortCircuitFilters ==
  {Obj(<<x.e[1], KV(KeyOr, Arr(l))>>) : x \in {ActBenType, NameCool}, l \in ListsWithEmpty}
  \cup {Obj(<<KV(KeyOr, Arr(l)), x.e[1]>>) :
          x \in {ActBenType, NameCool}, l \in ListsWithEmpty}
  \cup {Group(KeyAnd, <<x, Group(KeyOr, l)>>) :
          x \in {ActBenType, NameCool}, l \in ListsWithEmpty}

\* {x, y}: a valid condition followed by an invalid one
InvalidSecondFilters ==
  {Obj(<<x.e[1], y.e[1]>>) :
     x \in {NameCool, ActDelType, Nest(<<FItems, KeySome>>, NameCool)},
     y \in {AgeContains, Nest(<<FItems, FName, KeyNone>>, NameCool),
            Nest(<<FAuthor, KeySome>>, NameCool)}}

\* {_and: [child, ..]}: a child with a merged JSON condition and another key
SkippedChildFilters ==
  {Group(KeyAnd, <<Obj(<<ActDelType.e[1], y.e[1]>>), ActDelNum>>) :
     y \in {NameCool, MetaDelType, AgeGt}}
  \cup {Group(KeyAnd, <<ActDelNum, Obj(<<y.e[1], ActDelType.e[1]>>)>>) :
          y \in {NameCool, MetaDelType}}

Filters ==
  Atoms \cup ListFilters \cup MergeFilters \cup BranchFilters \cup MixedFilters
  \cup TwoKeyFilters \cup SubPathFilters \cup ShortCircuitFilters
  \cup NestedMergeFilters \cup InvalidSecondFilters \cup SkippedChildFilters

\* the field paths given to buildJsonPath
PathSegments == {SType, SDel, SDotted, SQuoted, SPrivate, SIndex, SDigit, KeyNone}
FieldPaths == {<<FAct>> \o p : p \in Seqs(PathSegments, 0, MaxSegs)}

\* the operators and, for each, the operands given to getJsonOperatorAndValues
Operators ==
  {OpEq, OpNeq, OpContains, OpNContains, OpIContains, OpNIContains, OpStartsWith,
   OpEndsWith, OpGt, OpGte, OpLt, OpLte, OpIn, OpNin, OpBetween, OpNBetween,
   OpEmpty, OpNEmpty, OpUnknown}
Scalars == {VT1, VTwelve, VList, VEmpty, Num(0), Num(5), Num(42)}
OperandLists == {Arr(l) : l \in Seqs({VT1, Num(3), Num(5), Undef}, 0, MaxOperands)}
Operands(operator) ==
  CASE operator \in {OpIn, OpNin} ->
         OperandLists \cup {v \in Scalars : v.t = "str"}
    [] operator \in {OpBetween, OpNBetween} -> OperandLists
    [] OTHER -> Scalars \cup OperandLists

\* ------------------------------------------- the filter after the run

\* path ends with the sequence suffix
EndsWith(path, suffix) ==
  /\ Len(suffix) <= Len(path)
  /\ SubSeq(path, Len(path) - Len(suffix) + 1, Len(path)) = suffix

\* the operand value under the operator key, reached by the keys of path, is
\* the operand of a condition of assigned
IsAssigned(assigned, path, operator, value) ==
  \E i \in 1..Len(assigned) :
    /\ EndsWith(path, assigned[i].path)
    /\ assigned[i].operator = operator
    /\ assigned[i].value = value

\* the content of the filter object once the assignments have been made: the
\* operands are the filter's own arrays, so the assignment of line 36 is seen
\* by whoever holds the filter
RECURSIVE FilterAfter(_, _, _)
FilterAfter(value, path, assigned) ==
  CASE value.t = "arr" ->
         Arr([i \in 1..Len(value.a) |-> FilterAfter(value.a[i], path, assigned)])
    [] value.t = "obj" ->
         Obj([i \in 1..Len(value.e) |->
                KV(value.e[i].k,
                   IF value.e[i].k \in {KeyAnd, KeyOr}
                   THEN FilterAfter(value.e[i].v, path, assigned)
                   ELSE IF /\ StartsWithUnderscore(value.e[i].k)
                           /\ value.e[i].k \notin {KeyNone, KeySome}
                   THEN IF IsAssigned(assigned, path, value.e[i].k, value.e[i].v)
                        THEN LowerAssigned(value.e[i].v) ELSE value.e[i].v
                   ELSE FilterAfter(value.e[i].v, Append(path, value.e[i].k), assigned))])
    [] OTHER -> value

\* --------------------------------------------------------- the program

NoResult == [sql |-> <<>>, bindings |-> <<>>]

Init ==
  /\ pc = "start"
  /\ rootFilter \in Filters
  /\ rootQuery = <<>>
  /\ ctx = NewContext
  /\ compiled = NoResult
  /\ arg = <<>>
  /\ ret = <<>>

\* applyFilter(knex, schema, rootQuery, rootFilter, collection, ..) on a new builder
ApplyFilter ==
  /\ pc = "start"
  /\ LET r == addWhereClauses(
                [c |-> [NewContext EXCEPT
                          !.joins = addJoins(rootFilter, <<>>, NoCases, CollTest)],
                 q |-> <<>>],
                rootFilter, CollTest, "and")
     IN /\ pc' = IF r.c.err # "" THEN "failed" ELSE "built"
        /\ rootQuery' = r.q
        /\ ctx' = r.c
  /\ UNCHANGED <<rootFilter, compiled, arg, ret>>

\* what rootQuery.toSQL() leaves: the compiled statement or the error thrown
Compiled(w) ==
  /\ pc' = IF w.c.err # "" THEN "renderFailed" ELSE "done"
  /\ ctx' = w.c
  /\ compiled' = IF w.c.err # "" THEN NoResult
                 ELSE [sql |-> w.sql, bindings |-> w.bindings]

\* rootQuery.toSQL(): the deferred callbacks run
ToSQL ==
  /\ pc = "built"
  /\ Compiled(toSQL(ctx, rootQuery))
  /\ UNCHANGED <<rootFilter, rootQuery, arg, ret>>

Next == ApplyFilter \/ ToSQL

Spec == Init /\ [][Next]_vars

\* buildJsonPath on every field path
InitPath ==
  /\ pc = "call"
  /\ arg \in FieldPaths
  /\ ret = <<>>
  /\ rootFilter = EmptyFilter
  /\ rootQuery = <<>>
  /\ ctx = NewContext
  /\ compiled = NoResult

CallBuildJsonPath ==
  /\ pc = "call"
  /\ ret' = buildJsonPath(arg)
  /\ pc' = "returned"
  /\ UNCHANGED <<rootFilter, rootQuery, ctx, compiled, arg>>

SpecPath == InitPath /\ [][CallBuildJsonPath]_vars

\* getJsonOperatorAndValues on every operator and operand
InitOperator ==
  /\ pc = "call"
  /\ arg \in {[operator |-> o, value |-> v] : o \in Operators, v \in Scalars \cup OperandLists}
  /\ arg.value \in Operands(arg.operator)
  /\ ret = <<>>
  /\ rootFilter = EmptyFilter
  /\ rootQuery = <<>>
  /\ ctx = NewContext
  /\ compiled = NoResult

CallGetJsonOperatorAndValues ==
  /\ pc = "call"
  /\ ret' = getJsonOperatorAndValues(arg.operator, arg.value)
  /\ pc' = "returned"
  /\ UNCHANGED <<rootFilter, rootQuery, ctx, compiled, arg>>

SpecOperator == InitOperator /\ [][CallGetJsonOperatorAndValues]_vars

\* the children of the lists given to addJoins
JoinAtoms ==
  {EmptyFilter, NameCool, ActDelType, Cond(<<FItems, FName>>, OpEq, VCool),
   Nest(<<FBlocks, KeySome>>, NameCool), Obj(<<KV(FItems, EmptyFilter)>>)}

\* {_or: l}, {x, _or: l} and {_and: [x, {_or: l}]}
JoinFilters ==
  {Group(KeyOr, l) : l \in Seqs(JoinAtoms, 1, MaxList)}
  \cup {Obj(<<x.e[1], KV(KeyOr, Arr(l))>>) :
          x \in {NameCool, Cond(<<FAuthor, FName>>, OpEq, VCool)},
          l \in Seqs(JoinAtoms, 1, MaxList)}
  \cup {Group(KeyAnd, <<x, Group(KeyOr, l)>>) :
          x \in {NameCool, Cond(<<FAuthor, FName>>, OpEq, VCool)},
          l \in Seqs(JoinAtoms, 1, MaxList)}

\* the positions of the _or list of a filter of JoinFilters
OrPosition(filter) ==
  IF filter.e[1].k = KeyOr THEN <<1>>
  ELSE IF filter.e[1].k = KeyAnd THEN <<1, 2, 1>>
  ELSE <<2>>

\* addJoins on every filter, the cases array being its _or list or another array
InitJoins ==
  /\ pc = "call"
  /\ rootFilter \in JoinFilters
  /\ arg \in {NoCases, OrPosition(rootFilter)}
  /\ ret = <<>>
  /\ rootQuery = <<>>
  /\ ctx = NewContext
  /\ compiled = NoResult

CallAddJoins ==
  /\ pc = "call"
  /\ ret' = addJoins(rootFilter, <<>>, arg, CollTest)
  /\ pc' = "returned"
  /\ UNCHANGED <<rootFilter, rootQuery, ctx, compiled, arg>>

SpecJoins == InitJoins /\ [][CallAddJoins]_vars

\* the base paths (below the JSON field) a group key is computed for
KeySegments == {SDel, SDotted, SA, SB}
KeyPaths == Seqs(KeySegments, 0, MaxSegs)

\* the key of a group, and what is computed from it, for every JSON field and
\* base path; the condition is on the field `type` at the end of the path
InitKey ==
  /\ pc = "call"
  /\ arg \in [field : {FAct, FMeta}, basePath : KeyPaths]
  /\ ret = <<>>
  /\ rootFilter = EmptyFilter
  /\ rootQuery = <<>>
  /\ ctx = NewContext
  /\ compiled = NoResult

\* json-query.ts 253-255 and 278-284, index 467
CallBasePathKey ==
  /\ pc = "call"
  /\ ret' = [key |-> BasePathKey(arg.field, <<arg.field>> \o arg.basePath),
             rebuilt |-> Split(BasePathKey(arg.field, <<arg.field>> \o arg.basePath), "."),
             jsonPath |-> MergedJsonPath(BasePathKey(arg.field,
                                                     <<arg.field>> \o arg.basePath)),
             skipKey |-> SkipPathKey(arg.field,
                                     getFilterPath(arg.field,
                                       Cond(arg.basePath \o <<SType>>, OpEq, VT1)))]
  /\ pc' = "returned"
  /\ UNCHANGED <<rootFilter, rootQuery, ctx, compiled, arg>>

SpecKey == InitKey /\ [][CallBasePathKey]_vars

\* ------------------------------------------------------------ properties

\* the text of an EXISTS over a JSON path of the row alias
ExistsJsonSql(alias, raw) ==
  <<"exists", "(", "select 1 from jsonb_path_query((", alias, ")::jsonb,", "?",
    ") as json_path_value(json_value)", "where">> \o raw \o <<")">>

\* the text of the EXISTS over the row-source of collection.field
RowSourceSql(collection, field, alias, inner) ==
  <<"exists", "(", "select * from json_array_elements(", Name(collection), ".",
    Name(field), ") as", alias>>
  \o (IF inner = <<>> THEN <<>> ELSE <<"where">> \o inner) \o <<")">>

\* the children of a root filter {_and: [..]} or {_or: [..]}
Children(filter) == filter.e[1].v.a

\* the condition a child {field: {..: {operator: value}}} states
ChildCondition(child) ==
  Condition(getFilterPath(child.e[1].k, child.e[1].v),
            getOperation(child.e[1].k, child.e[1].v).operator,
            getOperation(child.e[1].k, child.e[1].v).value)

ChildConditions(children) == [i \in 1..Len(children) |-> ChildCondition(children[i])]

\* `buildJsonPath(base path)` followed by `[*]`
BasePathWildcard(condition) ==
  Str(buildJsonPath(DropLast(condition.path)) \o <<"[", "*", "]">>)

\* The JSON path, then each member's field name and bound values
MergedGroupBindings(members) == <<BasePathWildcard(members[1])>> \o MergedBindings(members)

(* C1: an _and list whose children all target one JSON field with one base
   path compiles to exactly one EXISTS over buildJsonPath(base path) + [*]
   inside the row-source, holding the AND of one comparison per member; the
   bindings are the JSON path, then per member its field name and values.   *)
C1_MergedGroupIsOneExists ==
  (pc = "done" /\ rootFilter \in MergeFilters) =>
    LET members == ChildConditions(Children(rootFilter))
    IN /\ compiled.sql =
            <<"select *", "where", "(">>
            \o RowSourceSql(CollTest, FAct, "jsonal1",
                            ExistsJsonSql("jsonal1", MergedRaw(members)))
            \o <<")">>
       /\ compiled.bindings = MergedGroupBindings(members)

\* {_or: [{_and: ms1}, {_and: ms2}]} whose branches each merge two or more
\* conditions on one base path
IsOrOfMergingBranches(filter) ==
  /\ filter \in BranchFilters
  /\ filter.e[1].k = KeyOr
  /\ \A b \in 1..Len(Children(filter)) : Len(Children(Children(filter)[b])) > 1

BranchBindings(filter) ==
  Concat([b \in 1..Len(Children(filter)) |->
            MergedGroupBindings(ChildConditions(Children(Children(filter)[b])))])

(* C2: under _or, every _and branch that merges its conditions has its own
   EXISTS over the row-source with its own merged EXISTS inside, and the
   bindings come out branch by branch in list order.                       *)
C2_OrBranchesStayApart ==
  (pc = "done" /\ IsOrOfMergingBranches(rootFilter)) =>
    /\ Count("select * from json_array_elements(", compiled.sql)
         = Len(Children(rootFilter))
    /\ Count("select 1 from jsonb_path_query((", compiled.sql)
         = Len(Children(rootFilter))
    /\ Count("or", compiled.sql) = Len(Children(rootFilter)) - 1
    /\ compiled.bindings = BranchBindings(rootFilter)

\* {jsonField: {k1: .., .., kN: ..}}, N >= 2, no key being _and/_or
IsSubPathFilter(filter) ==
  /\ Len(filter.e) = 1
  /\ FieldType(CollTest, filter.e[1].k) = "json"
  /\ filter.e[1].v.t = "obj"
  /\ Len(filter.e[1].v.e) >= 2
  /\ \A i \in 1..Len(filter.e[1].v.e) :
       /\ filter.e[1].v.e[i].k \notin {KeyAnd, KeyOr}
       /\ ~getOperation(filter.e[1].v.e[i].k, filter.e[1].v.e[i].v).none

\* the condition the i-th key of the value of the JSON field states
SubPathCondition(filter, i) ==
  Condition(<<filter.e[1].k>>
              \o getFilterPath(filter.e[1].v.e[i].k, filter.e[1].v.e[i].v),
            getOperation(filter.e[1].v.e[i].k, filter.e[1].v.e[i].v).operator,
            getOperation(filter.e[1].v.e[i].k, filter.e[1].v.e[i].v).value)

\* the text and the bindings of the EXISTS of one condition
ConditionSql(alias, condition) ==
  ExistsJsonSql(alias, SingleRaw(condition.operator, condition.value))

ConditionBindings(condition) ==
  <<Str(buildJsonPath(condition.path))>>
  \o getJsonOperatorAndValues(condition.operator, condition.value).values

(* C3: a root filter {jsonField: {k1: .., .., kN: ..}} compiles to one
   row-source holding N EXISTS clauses, one per sub-path in key order, joined
   by AND, each with its own JSON path and its own bound values.            *)
C3_SubPathsAreSeparateExists ==
  (pc = "done" /\ IsSubPathFilter(rootFilter)) =>
    LET n == Len(rootFilter.e[1].v.e)
    IN /\ compiled.sql =
            <<"select *", "where">>
            \o RowSourceSql(CollTest, rootFilter.e[1].k, "jsonal1",
                 Join([i \in 1..n |->
                         ConditionSql("jsonal1", SubPathCondition(rootFilter, i))],
                      <<"and">>))
       /\ compiled.bindings =
            Concat([i \in 1..n |-> ConditionBindings(SubPathCondition(rootFilter, i))])

\* a JSON field with three sub-paths has been compiled to three EXISTS
C3_Witness ==
  /\ pc = "done"
  /\ IsSubPathFilter(rootFilter)
  /\ Len(rootFilter.e[1].v.e) = 3
  /\ Count("select 1 from jsonb_path_query((", compiled.sql) = 3
  /\ Count("select * from json_array_elements(", compiled.sql) = 1

\* the condition of a filter that is one chain {field: {..: {operator: value}}}
IsJsonLeaf(filter) ==
  /\ Len(filter.e) = 1
  /\ FieldType(CollTest, filter.e[1].k) = "json"
  /\ ~getOperation(filter.e[1].k, filter.e[1].v).none
  /\ filter = Cond(ChildCondition(filter).path, ChildCondition(filter).operator,
                   ChildCondition(filter).value)

\* {_or: [leaf, leaf, ..]}: two or more single conditions on one JSON field
IsOrOfJsonLeaves(filter) ==
  /\ Len(filter.e) = 1
  /\ filter.e[1].k = KeyOr
  /\ Len(Children(filter)) >= 2
  /\ \A i \in 1..Len(Children(filter)) :
       /\ IsJsonLeaf(Children(filter)[i])
       /\ Children(filter)[i].e[1].k = Children(filter)[1].e[1].k

(* C4: under _or, every child holding one condition on the JSON field yields
   its own EXISTS over the field's row-source, the children are joined by OR,
   and the bindings are path and value of child 1, then of child 2, ..      *)
C4_OrChildrenHaveOwnRowSource ==
  (pc = "done" /\ IsOrOfJsonLeaves(rootFilter)) =>
    /\ Count("select * from json_array_elements(", compiled.sql)
         = Len(Children(rootFilter))
    /\ Count("or", compiled.sql) = Len(Children(rootFilter)) - 1
    /\ compiled.bindings =
         Concat([i \in 1..Len(Children(rootFilter)) |->
                   ConditionBindings(ChildCondition(Children(rootFilter)[i]))])

\* `.segment` or `."segment"` per segment, `[*]` after every one but the last
RECURSIVE Accessors(_)
Accessors(segments) ==
  IF Len(segments) = 0 THEN <<>>
  ELSE (IF IsIdentifier(segments[1]) THEN <<".">> \o segments[1]
        ELSE <<".", "\"">> \o EscapeQuotes(segments[1]) \o <<"\"">>)
       \o (IF Len(segments) > 1 THEN <<"[", "*", "]">> ELSE <<>>)
       \o Accessors(Tail(segments))

\* the segments without the brackets of `[x]`, those starting with `_` left out
RECURSIVE KeptSegments(_)
KeptSegments(segments) ==
  IF Len(segments) = 0 THEN <<>>
  ELSE (IF StartsWithUnderscore(Unbracket(segments[1])) THEN <<>>
        ELSE <<Unbracket(segments[1])>>)
       \o KeptSegments(Tail(segments))

(* C5, as stated: buildJsonPath drops the root and returns `$` followed by
   the accessor of every remaining segment in order, `[*]` after each but
   the last.                                                               *)
C5_EverySegmentHasAnAccessor ==
  pc = "returned" => ret = <<"$">> \o Accessors(Tail(arg))

(* C5, amended: buildJsonPath drops the root, takes `x` for a segment `[x]`,
   leaves out the segments that then start with `_`, and returns `$` followed
   by the accessor of every segment kept, `[*]` after each but the last.    *)
C5_KeptSegmentsHaveAccessors ==
  pc = "returned" => ret = <<"$">> \o Accessors(KeptSegments(Tail(arg)))

\* a path with a bracketed and an underscore segment has been compiled
C5_Witness ==
  /\ pc = "returned"
  /\ arg = <<FAct, SIndex, SPrivate, SQuoted>>
  /\ ret = <<"$", ".", "\"", "0", "\"", "[", "*", "]", ".", "\"", "q", "\\", "\"", "t", "\"">>

\* the positions of the tokens that open an EXISTS over a JSON path
FragmentStarts(sql) ==
  SelectSeq([t \in 1..Len(sql) |-> t],
            LAMBDA t : sql[t] = "select 1 from jsonb_path_query((")

\* the position of the ")" that brings the depth of parentheses from depth to 0
RECURSIVE MatchClose(_, _, _)
MatchClose(sql, t, depth) ==
  IF t > Len(sql) THEN Len(sql) + 1
  ELSE IF sql[t] = "(" THEN MatchClose(sql, t + 1, depth + 1)
  ELSE IF sql[t] = ")"
  THEN IF depth = 1 THEN t ELSE MatchClose(sql, t + 1, depth - 1)
  ELSE MatchClose(sql, t + 1, depth)

\* the bound values of the placeholders at the positions from..to, the k-th
\* placeholder of the text taking the k-th binding
BoundBetween(sql, bindings, from, to) ==
  LET before == Cardinality({t \in 1..(from - 1) : sql[t] = "?"})
      within == Cardinality({t \in from..to : sql[t] = "?"})
  IN IF before + within > Len(bindings) THEN <<>>
     ELSE SubSeq(bindings, before + 1, before + within)

\* what the text from position t on and the binding list say of one EXISTS:
\* its JSON path, the text of its predicate, the values of its predicate
RecoverFragment(sql, bindings, t) ==
  [jsonPath |-> BoundBetween(sql, bindings, t, t + 3),
   raw |-> SubSeq(sql, t + 6, MatchClose(sql, t, 1) - 1),
   bindings |-> BoundBetween(sql, bindings, t + 6, MatchClose(sql, t, 1) - 1)]

Recovered(sql, bindings) ==
  [k \in 1..Len(FragmentStarts(sql)) |->
     RecoverFragment(sql, bindings, FragmentStarts(sql)[k])]

\* the comparison of one condition and the values it binds
ComparisonText(condition) ==
  <<Cast(condition.value)>>
  \o getJsonOperatorAndValues(condition.operator, condition.value).operator

ComparisonValues(condition) ==
  getJsonOperatorAndValues(condition.operator, condition.value).values

\* one member of a merged predicate: its text, and its field name followed by
\* its values
MemberText(condition) ==
  <<"(", "jsonb_extract_path_text(json_value,", "?", ")::">>
  \o ComparisonText(condition) \o <<")">>

MemberValues(condition) == <<Str(condition.field)>> \o ComparisonValues(condition)

\* what the conditions of an emitted EXISTS say its text and bindings are
ExpectedFragment(st) ==
  IF Len(st.conditions) = 1
  THEN [jsonPath |-> <<Str(st.jsonPath)>>,
        raw |-> <<"((json_value #>> '{}'))::">> \o ComparisonText(st.conditions[1]),
        bindings |-> ComparisonValues(st.conditions[1])]
  ELSE [jsonPath |-> <<Str(st.jsonPath)>>,
        raw |-> Join([m \in 1..Len(st.conditions) |-> MemberText(st.conditions[m])],
                     <<"AND">>),
        bindings |-> Concat([m \in 1..Len(st.conditions) |->
                               MemberValues(st.conditions[m])])]

(* C6: the compiled statement has as many bindings as placeholders, and the
   placeholders read left to right against the binding list give, for every
   EXISTS over a JSON path, its path, then for every condition (every member
   of a merged predicate, in the order of the text) its field name and the
   values of its operator.                                                 *)
C6_BindingsFollowPlaceholders ==
  pc = "done" =>
    /\ Count("?", compiled.sql) = Len(compiled.bindings)
    /\ Recovered(compiled.sql, compiled.bindings)
         = [k \in 1..Len(ctx.emitted) |-> ExpectedFragment(ctx.emitted[k])]
    /\ \A k \in 1..Len(ctx.emitted) : \A m \in 1..Len(ctx.emitted[k].conditions) :
         /\ Count("?", ComparisonText(ctx.emitted[k].conditions[m]))
              = Len(ComparisonValues(ctx.emitted[k].conditions[m]))
         /\ Count("?", MemberText(ctx.emitted[k].conditions[m]))
              = Len(MemberValues(ctx.emitted[k].conditions[m]))

\* an EXISTS of one condition and a merged EXISTS have been compiled into one
\* statement, and every binding has its placeholder
C6_Witness ==
  /\ pc = "done"
  /\ \E k \in 1..Len(ctx.emitted) : Len(ctx.emitted[k].conditions) = 1
  /\ \E k \in 1..Len(ctx.emitted) : Len(ctx.emitted[k].conditions) >= 2
  /\ Len(compiled.bindings) >= 7
  /\ Count("?", compiled.sql) = Len(compiled.bindings)

\* the number of values the claim gives to an operator and its operand
ClaimedValueCount(operator, value) ==
  CASE operator \in {OpIn, OpNin} ->
         IF value.t = "arr" THEN Len(value.a) ELSE 1 + Count(",", value.s)
    [] operator \in {OpBetween, OpNBetween} -> 2
    [] operator \in {OpEmpty, OpNEmpty} -> 0
    [] OTHER -> 1

(* C7: the template getJsonOperatorAndValues returns has as many `?` as the
   values list has entries: one for the comparison and pattern operators, the
   length of the list for _in/_nin, two for _between/_nbetween, none for
   _empty/_nempty.                                                         *)
C7_TemplateMatchesValues ==
  pc = "returned" =>
    /\ Count("?", ret.operator) = Len(ret.values)
    /\ Len(ret.values) = ClaimedValueCount(arg.operator, arg.value)

\* _in on the comma-separated string 'a,b' has returned two placeholders
C7_Witness ==
  /\ pc = "returned"
  /\ arg.operator = OpIn
  /\ arg.value = VList
  /\ ret.operator = <<"IN", "(", "?", ",", "?", ")">>
  /\ Len(ret.values) = 2

\* is the i-th (from 0) bound of the operand missing
MissingBound(value, i) == i >= Len(value.a) \/ value.a[i + 1] = Undef

\* the bounds the claim gives to an operand of _between
ClaimedLower(value) == IF MissingBound(value, 0) THEN Num(0) ELSE value.a[1]
ClaimedUpper(value) == IF MissingBound(value, 1) THEN ClaimedLower(value) ELSE value.a[2]

(* C8: _between and _nbetween bind exactly two values: the lower bound, or 0
   when it is missing, then the upper bound, or the lower bound just bound
   when it is missing.                                                     *)
C8_BetweenBindsTwoBounds ==
  (pc = "returned" /\ arg.operator \in {OpBetween, OpNBetween}) =>
    ret.values = <<ClaimedLower(arg.value), ClaimedUpper(arg.value)>>

\* _between [undefined, 5] has bound [0, 5]
C8_Witness ==
  /\ pc = "returned"
  /\ arg.operator = OpBetween
  /\ arg.value = Arr(<<Undef, Num(5)>>)
  /\ ret.values = <<Num(0), Num(5)>>

NoDuplicates(seq) == \A i, j \in 1..Len(seq) : seq[i] = seq[j] => i = j

\* how many times the text opens a row-source over collection.field
RowSourceCount(sql, collection, field) ==
  Cardinality({t \in 1..(Len(sql) - 3) :
                 /\ sql[t] = "select * from json_array_elements("
                 /\ sql[t + 1] = Name(collection)
                 /\ sql[t + 3] = Name(field)})

\* in the context of one applyFilter call: one alias and one wrapper per
\* (collection, field), and every statement on a row-source uses its alias
OneRowSourcePerField(c) ==
  /\ NoDuplicates(c.created)
  /\ NoDuplicates(c.wrappers)
  /\ NoDuplicates(c.rendered)
  /\ c.wrappers = c.created
  /\ Len(c.jq) = Len(c.created)
  /\ \A i \in 1..Len(c.jq) :
       /\ c.jq[i].aliasKey = c.created[i]
       /\ \A k \in 1..Len(c.jq[i].stmts) : c.jq[i].stmts[k].alias = c.jq[i].alias

(* C9: within one applyFilter call at most one row-source is created for a
   (collection, JSON field) and its EXISTS wrapper is attached once, however
   many conditions and groups reference the field; later references use the
   alias registered.                                                       *)
C9_OneRowSourcePerField ==
  /\ OneRowSourcePerField(ctx)
  /\ \A n \in 1..Len(ctx.nested) : OneRowSourcePerField(ctx.nested[n])
  /\ \A field \in {FAct, FMeta} : RowSourceCount(compiled.sql, CollTest, field) <= 1

\* a field referenced by a group and again by a later group has one row-source
C9_Witness ==
  /\ pc = "done"
  /\ Len(ctx.created) = 1
  /\ Len(ctx.jq[1].stmts) >= 2
  /\ ctx.late # <<>>
  /\ RowSourceCount(compiled.sql, CollTest, FAct) = 1

\* {relation: ..} with a chain of first keys that ends in an operation
IsRelationCondition(filter) ==
  /\ Len(filter.e) = 1
  /\ getRelationInfo(CollTest, filter.e[1].k) # ""
  /\ ~getOperation(filter.e[1].k, filter.e[1].v).none

\* _none/_some in the path, other than as the child key of an o2m/o2a field
HasMisplacedToken(filter) ==
  LET path == getFilterPath(filter.e[1].k, filter.e[1].v)
  IN /\ \E i \in 2..Len(path) : path[i] \in {KeyNone, KeySome}
     /\ ~(/\ getRelationInfo(CollTest, filter.e[1].k) \in {"o2m", "o2a"}
          /\ path[2] \in {KeyNone, KeySome})

ClaimedReason(filter) ==
  IF Includes(getFilterPath(filter.e[1].k, filter.e[1].v), KeyNone)
  THEN "\"_none\" can only be used with top level relational alias field"
  ELSE "\"_some\" can only be used with top level relational alias field"

(* C10: a condition rooted at a relational field whose path holds _none or
   _some elsewhere than as the child key of a top-level o2m/o2a field makes
   addWhereClauses raise the error naming the token, and nothing is emitted
   for it: as the root filter the call fails with an empty query, as a child
   of a root _and list the compilation never completes.                    *)
C10_MisplacedTokenIsRejected ==
  /\ (pc # "start" /\ IsRelationCondition(rootFilter) /\ HasMisplacedToken(rootFilter))
       => /\ pc = "failed"
          /\ ctx.err = ClaimedReason(rootFilter)
          /\ rootQuery = <<>>
          /\ compiled = NoResult
  /\ (pc = "done" /\ Len(rootFilter.e) = 1 /\ rootFilter.e[1].k = KeyAnd)
       => \A i \in 1..Len(Children(rootFilter)) :
            ~(/\ IsRelationCondition(Children(rootFilter)[i])
              /\ HasMisplacedToken(Children(rootFilter)[i]))

\* _none two levels below a top-level o2m field has been rejected
C10_Witness ==
  /\ pc = "failed"
  /\ rootFilter = Nest(<<FItems, FName, FAge, KeyNone>>, NameCool)
  /\ ctx.err = ErrNone
  /\ rootQuery = <<>>

\* the where clause and the bindings of one key: a condition on a JSON field
\* (its row-source aliased jsonal1) or a comparison of the column name
KeyClause(x) ==
  IF FieldType(CollTest, x.e[1].k) = "json"
  THEN [sql |-> RowSourceSql(CollTest, x.e[1].k, "jsonal1",
                             ConditionSql("jsonal1", ChildCondition(x))),
        bindings |-> ConditionBindings(ChildCondition(x)),
        created |-> <<AliasKey(CollTest, x.e[1].k)>>]
  ELSE [sql |-> <<"test", ".", Name(x.e[1].k), "=", "?">>,
        bindings |-> <<ChildCondition(x).value>>,
        created |-> <<>>]

\* the entries of a filter object other than an _or with an empty child
OtherEntries(filter) ==
  SelectSeq(filter.e,
            LAMBDA en : ~(en.k = KeyOr /\ \E i \in 1..Len(en.v.a) : en.v.a[i] = EmptyFilter))

\* {x, _or: [.., {}, ..]} or {_or: [.., {}, ..], x}
HasShortCircuitedOr(filter) ==
  /\ Len(filter.e) = 2
  /\ Len(OtherEntries(filter)) = 1
  /\ OtherEntries(filter)[1].k \notin {KeyAnd, KeyOr}

\* {_and: [x, {_or: [.., {}, ..]}]}
HasShortCircuitedChild(filter) ==
  /\ Len(filter.e) = 1
  /\ filter.e[1].k = KeyAnd
  /\ Len(Children(filter)) = 2
  /\ Len(Children(filter)[2].e) = 1
  /\ OtherEntries(Children(filter)[2]) = <<>>
  /\ Children(filter)[1] \in {ActBenType, NameCool}

\* {_or: [.., {}, ..]}
IsShortCircuitedOr(filter) == Len(filter.e) = 1 /\ OtherEntries(filter) = <<>>

(* C11: an _or list with an empty child emits nothing: no group, no predicate
   of its other children, no row-source for them; the other keys of the
   filter that holds it are compiled as if the _or were not there.          *)
C11_OrWithEmptyChildEmitsNothing ==
  /\ (pc \in {"built", "done"} /\ IsShortCircuitedOr(rootFilter)) =>
        /\ rootQuery = <<>>
        /\ ctx.jq = <<>> /\ ctx.created = <<>>
        /\ pc = "done" => compiled = [sql |-> <<"select *">>, bindings |-> <<>>]
  /\ (pc \in {"built", "done"} /\ HasShortCircuitedOr(rootFilter)) =>
        LET x == Obj(OtherEntries(rootFilter))
        IN /\ \A i \in 1..Len(rootQuery) : rootQuery[i].type # "whereWrapped"
           /\ ctx.created = KeyClause(x).created
           /\ pc = "done" =>
                /\ compiled.sql = <<"select *", "where">> \o KeyClause(x).sql
                /\ compiled.bindings = KeyClause(x).bindings
  /\ (pc = "done" /\ HasShortCircuitedChild(rootFilter)) =>
        LET x == Children(rootFilter)[1]
        IN /\ ctx.created = KeyClause(x).created
           /\ compiled.sql = <<"select *", "where", "(">> \o KeyClause(x).sql \o <<")">>
           /\ compiled.bindings = KeyClause(x).bindings

\* {act: .., _or: [{meta: ..}, {}]} has been compiled to the condition on act alone
C11_Witness ==
  /\ pc = "done"
  /\ rootFilter = Obj(<<ActBenType.e[1], KV(KeyOr, Arr(<<MetaDelType, EmptyFilter>>))>>)
  /\ ctx.created = <<AliasKey(CollTest, FAct)>>
  /\ Len(compiled.bindings) = 2

(* C12: an invalid condition (an operator the field type rejects, a misplaced
   _none/_some) makes applyFilter itself raise, at whatever depth of _and/_or
   it sits: no query that applyFilter returned raises that error when it is
   rendered.                                                               *)
C12_InvalidRaisesInTheCall ==
  ~(pc = "renderFailed" /\ ctx.err \in {ErrNone, ErrSome, ErrOperator})

\* the operator names of the table
DefinedOperators ==
  {OpEq, OpNeq, OpContains, OpNContains, OpIContains, OpNIContains, OpStartsWith,
   OpEndsWith, OpGt, OpGte, OpLt, OpLte, OpIn, OpNin, OpBetween, OpNBetween,
   OpEmpty, OpNEmpty}

HasUndefinedOperator(condition) == condition.operator \notin DefinedOperators

\* the member of a merged predicate as the claim has it for an undefined operator
ClaimedMemberText(m) ==
  IF HasUndefinedOperator(m)
  THEN <<"(", "jsonb_extract_path_text(json_value,", "?", ")::", Cast(m.value),
         "=", "?", ")">>
  ELSE MemberRaw(m)

ClaimedMemberValues(m) ==
  IF HasUndefinedOperator(m) THEN <<Str(m.field), m.value>> ELSE MemberBindings(m)

(* C13: a condition on a JSON field whose operator is not in the table is
   compiled without an error to the template `= ?` with the operand bound as
   it is, as the single condition of an EXISTS and as a member of a merged
   EXISTS.                                                                  *)
C13_UndefinedOperatorIsEquality ==
  /\ (pc # "start" /\ IsJsonLeaf(rootFilter)
         /\ HasUndefinedOperator(ChildCondition(rootFilter))) =>
        /\ pc \in {"built", "done"}
        /\ pc = "done" =>
             /\ compiled.sql =
                  <<"select *", "where">>
                  \o RowSourceSql(CollTest, FAct, "jsonal1",
                       ExistsJsonSql("jsonal1",
                         <<"((json_value #>> '{}'))::",
                           Cast(ChildCondition(rootFilter).value), "=", "?">>))
             /\ compiled.bindings =
                  <<Str(buildJsonPath(ChildCondition(rootFilter).path)),
                    ChildCondition(rootFilter).value>>
  /\ (pc # "start" /\ rootFilter \in MergeFilters
         /\ \E i \in 1..Len(Children(rootFilter)) :
              HasUndefinedOperator(ChildCondition(Children(rootFilter)[i]))) =>
        LET members == ChildConditions(Children(rootFilter))
        IN /\ pc \in {"built", "done"}
           /\ pc = "done" =>
                /\ compiled.sql =
                     <<"select *", "where", "(">>
                     \o RowSourceSql(CollTest, FAct, "jsonal1",
                          ExistsJsonSql("jsonal1",
                            Join([i \in 1..Len(members) |-> ClaimedMemberText(members[i])],
                                 <<"AND">>)))
                     \o <<")">>
                /\ Tail(compiled.bindings) =
                     Concat([i \in 1..Len(members) |-> ClaimedMemberValues(members[i])])

\* an undefined operator with a number has been compiled as the second member
\* of a merged EXISTS
C13_Witness ==
  /\ pc = "done"
  /\ rootFilter = Group(KeyAnd, <<MemberCond(FAct, <<SDel>>, <<SType, OpEq, VT1>>),
                                   MemberCond(FAct, <<SDel>>, <<SNum, OpUnknown, Num(7)>>)>>)
  /\ compiled.bindings = <<Str(<<"$", ".", "d", "e", "l", "[", "*", "]">>),
                            Str(SType), VT1, Str(SNum), Num(7)>>
  /\ Count("=", compiled.sql) = 2

\* {column: {_none or _some: ..}} stating a condition, the column being no
\* relational field of the collection
IsTokenUnderScalar(filter) ==
  /\ Len(filter.e) = 1
  /\ FieldType(CollTest, filter.e[1].k) \in {"string", "integer"}
  /\ getRelationInfo(CollTest, filter.e[1].k) = ""
  /\ filter.e[1].v.t = "obj" /\ Len(filter.e[1].v.e) = 1
  /\ filter.e[1].v.e[1].k \in {KeyNone, KeySome}
  /\ ~getOperation(filter.e[1].k, filter.e[1].v).none

(* C14: _none or _some under a root field for which no relation is found (a
   plain column) makes applyFilter raise InvalidQuery.                      *)
C14_TokenUnderScalarIsRejected ==
  (pc # "start" /\ IsTokenUnderScalar(rootFilter)) =>
    /\ pc = "failed"
    /\ ctx.err \in {ErrNone, ErrSome, ErrOperator}

\* {field: {_and: [c1, .., cn]}} with field a JSON field
IsAndInsideJsonField(filter) ==
  /\ Len(filter.e) = 1
  /\ FieldType(CollTest, filter.e[1].k) = "json"
  /\ filter.e[1].v.t = "obj" /\ Len(filter.e[1].v.e) = 1
  /\ filter.e[1].v.e[1].k = KeyAnd

\* {_and: [{field: c1}, .., {field: cn}]} for {field: {_and: [c1, .., cn]}}
AtTopLevel(filter) ==
  Group(KeyAnd, [i \in 1..Len(filter.e[1].v.e[1].v.a) |->
                   Obj(<<KV(filter.e[1].k, filter.e[1].v.e[1].v.a[i])>>)])

\* what compiling a filter on a new query and rendering it leaves
CompilationOf(filter) ==
  toSQL(addWhereClauses([c |-> NewContext, q |-> <<>>], filter, CollTest, "and").c,
        addWhereClauses([c |-> NewContext, q |-> <<>>], filter, CollTest, "and").q)

\* the EXISTS clauses over a JSON path a compilation emitted: path, predicate,
\* bindings and the combinator that joins each
ExistsClauses(emitted) ==
  {[jsonPath |-> emitted[k].jsonPath, raw |-> emitted[k].raw,
    bindings |-> emitted[k].bindings, bool |-> emitted[k].bool] :
     k \in 1..Len(emitted)}

(* C15: {field: {_and: [c1, .., cn]}} and {_and: [{field: c1}, .., {field: cn}]}
   compile to the same EXISTS clauses inside the row-source of the field:
   same groups, same JSON path, same predicates and bindings, all joined by
   AND.                                                                    *)
C15_MergingInsideAgreesWithTopLevel ==
  (pc = "done" /\ IsAndInsideJsonField(rootFilter)) =>
    /\ ExistsClauses(ctx.emitted)
         = ExistsClauses(CompilationOf(AtTopLevel(rootFilter)).c.emitted)
    /\ \A k \in 1..Len(ctx.emitted) : ctx.emitted[k].bool = "and"

(* C16: applyFilter never mutates the filter it is given: after the
   compilation, successful or not, every key and every operand of the filter
   is as it was given, the bound arrays of _between/_nbetween included.     *)
C16_FilterIsNeverMutated ==
  FilterAfter(rootFilter, <<>>, ctx.assigned) = rootFilter

(* C17: when compiling a filter raises InvalidQuery, no predicate of the
   filter has been added to the query: the conditions before the invalid one
   leave no statement and no row-source on the query builder.               *)
C17_FailureLeavesNoPredicate ==
  pc = "failed" => (rootQuery = <<>> /\ ctx.jq = <<>> /\ ctx.wrappers = <<>>)

\* the _or list of a filter of the forms {_or: l}, {x, _or: l}, {_and: [x, {_or: l}]}
OrList(filter) ==
  IF filter.e[1].k = KeyOr THEN filter.e[1].v.a
  ELSE IF filter.e[1].k = KeyAnd THEN filter.e[1].v.a[2].e[1].v.a
  ELSE filter.e[2].v.a

\* the filter beside the _or list (the empty filter when there is none)
BesideOrList(filter) ==
  IF filter.e[1].k = KeyOr THEN EmptyFilter
  ELSE IF filter.e[1].k = KeyAnd THEN filter.e[1].v.a[1]
  ELSE Obj(<<filter.e[1]>>)

\* the deep paths of a filter without lists: a path of several segments, or a
\* field of type alias
DeepPaths(filter) ==
  Concat([i \in 1..Len(filter.e) |->
            IF \/ Len(getFilterPath(filter.e[i].k, filter.e[i].v)) > 1
               \/ FieldType(CollTest, filter.e[i].k) = "alias"
            THEN <<getFilterPath(filter.e[i].k, filter.e[i].v)>> ELSE <<>>])

(* C18: addJoins, for an _or list with an empty child: when the list is the
   cases array and has more than one element, addJoin is called for every
   deep path of every non-empty child; otherwise it is called for none of
   the children.  Paths outside the list are not concerned, and no predicate
   is added.                                                               *)
C18_JoinsOfListWithEmptyChild ==
  (pc = "returned" /\ \E j \in 1..Len(OrList(rootFilter)) :
                         OrList(rootFilter)[j] = EmptyFilter) =>
    /\ ret = DeepPaths(BesideOrList(rootFilter))
               \o (IF arg = OrPosition(rootFilter) /\ Len(OrList(rootFilter)) > 1
                   THEN Concat([j \in 1..Len(OrList(rootFilter)) |->
                                  DeepPaths(OrList(rootFilter)[j])])
                   ELSE <<>>)
    /\ rootQuery = <<>>

\* the cases array [{}, {items: {name: ..}}] has had the join of items.name added
C18_Witness ==
  /\ pc = "returned"
  /\ rootFilter = Group(KeyOr, <<EmptyFilter, Cond(<<FItems, FName>>, OpEq, VCool)>>)
  /\ arg = <<1>>
  /\ ret = <<<<FItems, FName>>>>

\* the number of leaf conditions of a filter
RECURSIVE LeafCount(_)
LeafCount(value) ==
  CASE value.t = "arr" ->
         Len(Concat([i \in 1..Len(value.a) |->
                       [n \in 1..LeafCount(value.a[i]) |-> n]]))
    [] value.t = "obj" ->
         Len(Concat([i \in 1..Len(value.e) |->
                       [n \in 1..(IF /\ StartsWithUnderscore(value.e[i].k)
                                      /\ value.e[i].k \notin {KeyAnd, KeyOr, KeyNone, KeySome}
                                   THEN 1 ELSE LeafCount(value.e[i].v)) |-> n]]))
    [] OTHER -> 1

\* the number of predicates of a compiled text: the comparisons of a JSON
\* value, the members of the merged predicates, the comparisons of a column
PredicateCount(sql) ==
  Count("((json_value #>> '{}'))::", sql)
  + Count("jsonb_extract_path_text(json_value,", sql)
  + Cardinality({t \in 1..(Len(sql) - 2) :
                   sql[t] = "test" /\ sql[t + 1] = "." /\ sql[t + 2] \in {"name", "age"}})

\* {_and: [child, ..]} whose children hold conditions on JSON fields and on
\* columns only
IsAndOfConditions(filter) ==
  /\ Len(filter.e) = 1
  /\ filter.e[1].k = KeyAnd
  /\ \A i \in 1..Len(Children(filter)) :
       /\ Len(Children(filter)[i].e) >= 1
       /\ \A j \in 1..Len(Children(filter)[i].e) :
            /\ FieldType(CollTest, Children(filter)[i].e[j].k) \in {"json", "string", "integer"}
            /\ getRelationInfo(CollTest, Children(filter)[i].e[j].k) = ""
            /\ ~HasAndOrKey(Children(filter)[i].e[j].v)

(* C19: every leaf condition of every child of an _and list contributes
   exactly one predicate to the compiled group, as a member of a merged
   EXISTS or by its own emission: none is lost with a skipped sub-filter and
   none is emitted twice.                                                  *)
C19_EveryLeafHasOnePredicate ==
  (pc = "done" /\ IsAndOfConditions(rootFilter)) =>
    PredicateCount(compiled.sql) = LeafCount(rootFilter)

\* the contexts of a run: that of the call and those of its sub-queries
Contexts == {ctx} \cup {ctx.nested[n] : n \in 1..Len(ctx.nested)}

(* C20: under every order in which the deferred callbacks of nested
   _and/_or groups run, a JSON condition is never attached to a row-source
   whose EXISTS wrapper sits in a different group, and never to a row-source
   that has already been rendered.                                         *)
C20_ConditionsStayInTheirGroup ==
  \A c \in Contexts : c.foreign = <<>> /\ c.late = <<>>

(* C21: the key under which handleCombinedJsonConditionsInAnd groups
   conditions round-trips to the base path: the segments rebuilt from the
   key are the base-path segments, the merged EXISTS queries
   buildJsonPath(base path) followed by [*], no other base path has the same
   key, and the skip check of addWhereClauses computes the same key.       *)
C21_GroupKeyRoundTrips ==
  pc = "returned" =>
    /\ ret.rebuilt = <<arg.field>> \o arg.basePath
    /\ ret.jsonPath = buildJsonPath(<<arg.field>> \o arg.basePath) \o <<"[", "*", "]">>
    /\ \A other \in KeyPaths :
         BasePathKey(arg.field, <<arg.field>> \o other) = ret.key => other = arg.basePath
    /\ ret.skipKey = ret.key

====
